---- MODULE Spec2Model ----
(***************************************************************************)
(* A model of the rendering core of jcn (junction): the element tree with  *)
(* its draw / update protocol, the Stack and split-container layouts and   *)
(* the concatenation of strings with formatting.                           *)
(*                                                                         *)
(* Python values are represented as follows:                               *)
(*   - None, where an integer is expected, is NoneV; a raised exception,   *)
(*     where a value is expected, is ErrV;                                 *)
(*   - a str is a sequence of one-character strings, a list is a sequence; *)
(*   - a default_format is the sequence of the format names concatenated   *)
(*     so far, None being the empty sequence (the code only tests formats  *)
(*     for truth);                                                         *)
(*   - an object is an identifier; "is" is equality of identifiers.        *)
(***************************************************************************)
EXTENDS Integers, Sequences, FiniteSets, TLC

VARIABLES
    kind,       \* element -> its class
    content,    \* container -> ABCContainerElement._content
    active,     \* container -> ABCContainerElement.active_element
    weights,    \* split container -> SplitContainer._weights
    attrs,      \* element -> its size bounds, alignment and characters
    dformat,    \* element -> ABCUIElement._default_format
    updated,    \* element -> the stored updated flag (_updated of a container)
    geom,       \* element -> ABCUIElement._previous_geometry
    last,       \* the last call made on the tree and what it returned
    sc,         \* the running SplitContainer._calculate_element_sizes call
    sk,         \* the Stack layout call under examination
    sv,         \* the strings built by concatenation
    fn,         \* the call of a single function under examination
    ed          \* the objects being edited (containers with their Root, one
                \* element's alignment, the line buffer, the Root before its
                \* first draw)

treeVars == <<kind, content, active, weights, attrs, dformat, updated, geom, last>>
vars == <<kind, content, active, weights, attrs, dformat, updated, geom, last,
          sc, sk, sv, fn, ed>>

----------------------------------------------------------------------------
(* Bounds of the model.                                                    *)

MaxSide == 3

\* the elements: objects are told apart by their identifier
Elems == 1..4

----------------------------------------------------------------------------
(* Python values and built-ins.                                            *)

NoneV == -1000
ErrV == -2000
NoElem == 0
NoGeom == [width |-> NoneV, height |-> NoneV, x |-> NoneV, y |-> NoneV,
           x_crop |-> "none", y_crop |-> "none"]

Max2(a, b) == IF a >= b THEN a ELSE b
Min2(a, b) == IF a <= b THEN a ELSE b

\* value or default
PyOr(v, d) == IF v = NoneV \/ v = 0 THEN d ELSE v

\* seq * n : the empty sequence when n <= 0
PyMul(s, n) ==
    LET k == Len(s)
    IN  [i \in 1..(k * Max2(n, 0)) |-> s[((i - 1) % k) + 1]]

\* A slice index as Python clamps it for a sequence of length n.
PyIndex(i, n) == IF i < 0 THEN Max2(i + n, 0) ELSE Min2(i, n)

\* s[a:b]; NoneV stands for an omitted bound
PySlice(s, a, b) ==
    LET n == Len(s)
        lo == IF a = NoneV THEN 0 ELSE PyIndex(a, n)
        hi == IF b = NoneV THEN n ELSE PyIndex(b, n)
    IN  IF lo < hi THEN SubSeq(s, lo + 1, hi) ELSE <<>>

RECURSIVE SeqSum(_)
SeqSum(s) == IF s = <<>> THEN 0 ELSE Head(s) + SeqSum(Tail(s))

RECURSIVE SeqMax(_)
SeqMax(s) == IF Len(s) = 1 THEN s[1] ELSE Max2(Head(s), SeqMax(Tail(s)))

Range(s) == {s[i] : i \in 1..Len(s)}

SelectSeqNotNone(s) == SelectSeq(s, LAMBDA v : v # NoneV)

----------------------------------------------------------------------------
(* util.py                                                                 *)

clamp(value, min_, max_) ==
    IF min_ = NoneV /\ max_ = NoneV THEN value
    ELSE LET lo == IF min_ = NoneV THEN Min2(value, max_) ELSE min_
             hi == IF max_ = NoneV THEN Max2(value, lo) ELSE max_
         IN  \* the median of (value, lo, hi)
             IF (lo <= value /\ value <= hi) \/ (hi <= value /\ value <= lo)
             THEN value
             ELSE IF (value <= lo /\ lo <= hi) \/ (hi <= lo /\ lo <= value)
             THEN lo
             ELSE hi

\* crop_or_expand with the odd unit of a middle expansion put after the
\* sequence
crop_or_expand_TrailingOdd(iterable, length, default, scheme) ==
    LET n == Len(iterable)
    IN  IF n > length THEN
            IF scheme = "beginning" THEN PySlice(iterable, NoneV, length)
            ELSE IF scheme = "middle" THEN
                LET extra == n - length
                IN  PySlice(iterable, extra \div 2, (0 - extra) \div 2)
            ELSE PySlice(iterable, 0 - length, NoneV)
        ELSE IF n < length THEN
            LET missing == length - n
            IN  IF scheme = "beginning" THEN iterable \o PyMul(default, missing)
                ELSE IF scheme = "middle" THEN
                    PyMul(default, missing \div 2) \o iterable
                        \o PyMul(default, (missing + 1) \div 2)
                ELSE PyMul(default, missing) \o iterable
        ELSE iterable

crop_or_expand(iterable, length, default, scheme) ==
    LET n == Len(iterable)
    IN  IF n > length THEN
            IF scheme = "beginning" THEN PySlice(iterable, NoneV, length)
            ELSE IF scheme = "middle" THEN
                LET extra == n - length
                IN  PySlice(iterable, extra \div 2, (0 - extra) \div 2)
            ELSE PySlice(iterable, 0 - length, NoneV)
        ELSE IF n < length THEN
            LET missing == length - n
            IN  IF scheme = "beginning" THEN iterable \o PyMul(default, missing)
                ELSE IF scheme = "middle" THEN
                    PyMul(default, (missing + 1) \div 2) \o iterable
                        \o PyMul(default, missing \div 2)
                ELSE PyMul(default, missing) \o iterable
        ELSE iterable

----------------------------------------------------------------------------
(* The classes of element.                                                 *)

ContainerKinds == {"Stack", "Zebra", "Box", "VSplit", "HSplit"}
StackKinds == {"Stack", "Zebra"}
SplitKinds == {"VSplit", "HSplit"}
LeafKinds == {"Fill"}

IsContainer(e) == kind[e] \in ContainerKinds

\* SplitContainer._dimension
Dimension(e) == IF kind[e] = "HSplit" THEN "height" ELSE "width"

\* the instance attribute min_<dimension> / max_<dimension> of an element
MinAttr(e, dim) == IF dim = "width" THEN attrs[e].min_width ELSE attrs[e].min_height
MaxAttr(e, dim) == IF dim = "width" THEN attrs[e].max_width ELSE attrs[e].max_height

\* the truthy values among vs
Truthy(vs) == SelectSeq(vs, LAMBDA v : v # NoneV /\ v # 0)

RECURSIVE MinSize(_, _)
\* element.min_width / element.min_height, ErrV when reading it raises
MinSize(e, dim) ==
    IF kind[e] = "Fill" THEN MinAttr(e, dim)
    ELSE IF kind[e] = "Box" THEN 2
    ELSE LET mins == [i \in 1..Len(content[e]) |-> MinSize(content[e][i], dim)]
         IN  IF kind[e] \in StackKinds THEN
                 IF dim = "width" THEN
                     \* Stack.min_width turns a ValueError into None
                     IF ErrV \in Range(mins) \/ Truthy(mins) = <<>> THEN NoneV
                     ELSE SeqMax(Truthy(mins))
                 ELSE
                     IF ErrV \in Range(mins) THEN ErrV
                     ELSE SeqSum([i \in 1..Len(mins) |-> PyOr(mins[i], 1)])
             ELSE \* SplitContainer.get_min_size
                 IF PyOr(MinAttr(e, dim), 0) # 0 THEN MinAttr(e, dim)
                 ELSE IF ErrV \in Range(mins) THEN ErrV
                 ELSE IF dim = Dimension(e) THEN SeqSum(SelectSeqNotNone(mins))
                 ELSE IF SelectSeqNotNone(mins) = <<>> THEN ErrV
                 ELSE SeqMax(SelectSeqNotNone(mins))

RECURSIVE MaxSize(_, _)
\* element.max_width / element.max_height, ErrV when reading it raises
MaxSize(e, dim) ==
    IF kind[e] = "Fill" THEN MaxAttr(e, dim)
    ELSE IF kind[e] \in StackKinds THEN NoneV
    ELSE IF kind[e] = "Box" THEN
        IF active[e] = NoElem THEN ErrV
        ELSE LET m == MaxSize(active[e], dim)
             IN  IF m = ErrV \/ m = NoneV THEN ErrV ELSE m + 2
    ELSE \* SplitContainer.get_max_size
        LET maxs == [i \in 1..Len(content[e]) |-> MaxSize(content[e][i], dim)]
        IN  IF PyOr(MaxAttr(e, dim), 0) # 0 THEN MaxAttr(e, dim)
            ELSE IF ErrV \in Range(maxs) THEN ErrV
            ELSE IF NoneV \in Range(maxs) THEN NoneV
            ELSE IF dim = Dimension(e) THEN SeqSum(maxs)
            ELSE IF maxs = <<>> THEN ErrV
            ELSE SeqMax(maxs)

\* inherited format, then the element's own (get_all_blocks / get_updated_blocks)
ComposeFormat(inherited, own) ==
    IF own # <<>> THEN (IF inherited # <<>> THEN inherited \o own ELSE own)
    ELSE inherited

Block(x, y, lines, fmt) == [x |-> x, y |-> y, lines |-> lines, fmt |-> fmt]

Geometry(w, h, x, y, xc, yc) ==
    [width |-> w, height |-> h, x |-> x, y |-> y, x_crop |-> xc, y_crop |-> yc]

----------------------------------------------------------------------------
(* display_elements.py                                                     *)

Scheme(align) ==
    IF align \in {"left", "top"} THEN "beginning"
    ELSE IF align \in {"center", "middle"} THEN "middle"
    ELSE "end"

\* ABCDisplayElement._do_crop; fillchar is one character
DoCrop(lines, width, height, x_crop, y_crop, fillchar) ==
    LET rows == crop_or_expand(lines, height, <<PyMul(<<fillchar>>, width)>>,
                               Scheme(y_crop))
    IN  [i \in 1..Len(rows) |->
            crop_or_expand(rows[i], width, <<fillchar>>, Scheme(x_crop))]

\* Fill._get_lines
FillLines(e, width, height) == PyMul(<<PyMul(<<attrs[e].char>>, width)>>, height)

\* ABCDisplayElement._get_all_blocks for a Fill
LeafBlocks(e, width, height, x, y, x_crop, y_crop, fmt) ==
    LET full_width == clamp(width, attrs[e].min_width, attrs[e].max_width)
        full_height == clamp(height, attrs[e].min_height, attrs[e].max_height)
        own == DoCrop(FillLines(e, full_width, full_height), full_width,
                      full_height, attrs[e].halign, attrs[e].valign,
                      attrs[e].fillchar)
    IN  <<Block(x, y, DoCrop(own, width, height, x_crop, y_crop,
                             attrs[e].fillchar), fmt)>>

----------------------------------------------------------------------------
(* Stack layout (container_elements.py)                                    *)

RECURSIVE StackWalk(_, _, _, _, _, _, _, _)
\* The loop of Stack._get_elements_and_parameters over the child positions
\* order[i..]; mins[p] is the min_height of the child at position p.  The
\* result lists what the generator yields and tells whether it raised.
StackWalk(mins, order, i, width, height, x, current_y, down) ==
    IF i > Len(order) THEN [items |-> <<>>, err |-> FALSE]
    ELSE IF mins[order[i]] = ErrV THEN [items |-> <<>>, err |-> TRUE]
    ELSE
        LET elem_height == Min2(height, PyOr(mins[order[i]], 1))
            item_y == IF down THEN current_y ELSE current_y - elem_height
            next_y == IF down THEN current_y + elem_height ELSE item_y
            rest == StackWalk(mins, order, i + 1, width, height - elem_height,
                              x, next_y, down)
        IN  IF elem_height # 0
            THEN [items |-> <<[pos |-> order[i], width |-> width,
                               height |-> elem_height, x |-> x, y |-> item_y]>>
                            \o rest.items,
                  err |-> rest.err]
            ELSE [items |-> <<>>, err |-> FALSE]

Reversed(s) == [i \in 1..Len(s) |-> s[Len(s) + 1 - i]]

\* the Stack layout that visits the children in insertion order for valign
\* bottom too
StackLayout_NoReverse(mins, width, height, x, y, valign) ==
    LET order == [i \in 1..Len(mins) |-> i]
    IN  IF valign = "top"
        THEN StackWalk(mins, order, 1, width, height, x, y, TRUE)
        ELSE IF valign = "bottom"
        THEN StackWalk(mins, order, 1, width, height, x, y + height, FALSE)
        ELSE [items |-> <<>>, err |-> FALSE]

\* Stack._get_elements_and_parameters, on the children's min_heights
StackLayout(mins, width, height, x, y, valign) ==
    LET order == [i \in 1..Len(mins) |-> i]
    IN  IF valign = "top"
        THEN StackWalk(mins, order, 1, width, height, x, y, TRUE)
        ELSE IF valign = "bottom"
        THEN StackWalk(mins, Reversed(order), 1, width, height, x, y + height,
                       FALSE)
        ELSE [items |-> <<>>, err |-> FALSE]

----------------------------------------------------------------------------
(* Weighted split layout (util.py, container_elements.py)                  *)

RECURSIVE InsertByWeight(_, _, _)
\* p inserted in the list of positions s sorted by descending weight, after
\* the positions of equal weight (sorted() is stable)
InsertByWeight(ws, s, p) ==
    IF s = <<>> THEN <<p>>
    ELSE IF ws[Head(s)] >= ws[p] THEN <<Head(s)>> \o InsertByWeight(ws, Tail(s), p)
    ELSE <<p>> \o s

\* the positions 1..n left in insertion order, not sorted
SortedByWeight_Unsorted(ws, n) == [i \in 1..n |-> i]

RECURSIVE SortedByWeight(_, _)
\* sorted(iterable, key=weight, reverse=True) of the positions 1..n
SortedByWeight(ws, n) ==
    IF n = 0 THEN <<>> ELSE InsertByWeight(ws, SortedByWeight(ws, n - 1), n)

RemoveAt(s, i) == SubSeq(s, 1, i - 1) \o SubSeq(s, i + 1, Len(s))

RECURSIVE RoundRobinSweep(_, _, _, _, _)
\* One "for i, (item, weight) in enumerate(still_to_process)" loop, which
\* deletes from the list it is iterating over.
RoundRobinSweep(ws, still, i, assigned, out) ==
    IF i > Len(still) THEN [still |-> still, out |-> out]
    ELSE IF ws[still[i]] > assigned
    THEN RoundRobinSweep(ws, still, i + 1, assigned, Append(out, still[i]))
    ELSE RoundRobinSweep(ws, RemoveAt(still, i), i + 1, assigned, out)

\* the list after the first sweep only
RoundRobinList_OneSweep(ws, still, assigned, out) ==
    IF still = <<>> THEN out
    ELSE RoundRobinSweep(ws, still, 1, assigned, out).out

RECURSIVE RoundRobinList(_, _, _, _)
RoundRobinList(ws, still, assigned, out) ==
    IF still = <<>> THEN out
    ELSE LET r == RoundRobinSweep(ws, still, 1, assigned, out)
         IN  RoundRobinList(ws, r.still, assigned + 1, r.out)

\* weighted_round_robin: the list that is cycled, as positions of the items
weighted_round_robin(ws) == RoundRobinList(ws, SortedByWeight(ws, Len(ws)), 0, <<>>)

\* The state of _calculate_element_sizes when it enters its second loop:
\* mins[i] is "get_min_size(dimension) or 0" of child i.
SizesStart(mins) ==
    [size |-> mins, ignore |-> mins, allocated |-> SeqSum(mins), pos |-> 1]

\* the body of the second loop without its test of the size constraint
SizesStep_NoMax(st, cyc, maxs) ==
    LET i == cyc[st.pos]
        nxt == (st.pos % Len(cyc)) + 1
    IN  IF st.ignore[i] # 0
        THEN [st EXCEPT !.ignore[i] = @ - 1, !.pos = nxt]
        ELSE [st EXCEPT !.size[i] = @ + 1, !.allocated = @ + 1, !.pos = nxt]

\* The body of the second loop for the item the cycle is at; maxs[i] is
\* get_max_size(dimension) of child i.
SizesStep(st, cyc, maxs) ==
    LET i == cyc[st.pos]
        nxt == (st.pos % Len(cyc)) + 1
    IN  IF maxs[i] = NoneV \/ st.size[i] < maxs[i] THEN
            IF st.ignore[i] # 0
            THEN [st EXCEPT !.ignore[i] = @ - 1, !.pos = nxt]
            ELSE [st EXCEPT !.size[i] = @ + 1, !.allocated = @ + 1, !.pos = nxt]
        ELSE [st EXCEPT !.pos = nxt]

\* No item of the cycle can change any more: the loop spins for ever.
SizesStuck(st, cyc, maxs) ==
    \A k \in 1..Len(cyc) :
        maxs[cyc[k]] \notin {NoneV, ErrV} /\ st.size[cyc[k]] >= maxs[cyc[k]]

RECURSIVE SizesRun(_, _, _, _)
\* The second loop run from state st; outcome "ok", "raise" (reading a
\* child's maximum raised) or "hang" (the loop does not terminate).
SizesRun(st, cyc, maxs, target) ==
    IF cyc = <<>> \/ st.allocated >= target THEN [size |-> st.size, outcome |-> "ok"]
    ELSE IF maxs[cyc[st.pos]] = ErrV THEN [size |-> st.size, outcome |-> "raise"]
    ELSE IF SizesStuck(st, cyc, maxs) THEN [size |-> st.size, outcome |-> "hang"]
    ELSE SizesRun(SizesStep(st, cyc, maxs), cyc, maxs, target)

\* SplitContainer._calculate_element_sizes on the children's minimum and
\* maximum sizes (NoneV or ErrV allowed) and weights
calculate_element_sizes(mins, maxs, ws, target) ==
    IF ErrV \in Range(mins) THEN [size |-> <<>>, outcome |-> "raise"]
    ELSE SizesRun(SizesStart([i \in 1..Len(mins) |-> PyOr(mins[i], 0)]),
                  weighted_round_robin(ws), maxs, target)

RECURSIVE SplitItems(_, _, _, _, _, _, _, _)
\* the loop of SplitContainer._get_elements_and_parameters
SplitItems(sizes, i, dim, width, height, x, y, processed) ==
    IF i > Len(sizes) THEN <<>>
    ELSE <<IF dim = "height"
           THEN [pos |-> i, width |-> width, height |-> sizes[i], x |-> x,
                 y |-> y + processed]
           ELSE [pos |-> i, width |-> sizes[i], height |-> height,
                 x |-> x + processed, y |-> y]>>
         \o SplitItems(sizes, i + 1, dim, width, height, x, y,
                       processed + sizes[i])

----------------------------------------------------------------------------
(* The layout of each container class: what _get_elements_and_parameters   *)
(* yields, and whether it returned ("ok"), raised or did not terminate.    *)

WithElems(e, items, fmt) ==
    [j \in 1..Len(items) |->
        [elem |-> content[e][items[j].pos], width |-> items[j].width,
         height |-> items[j].height, x |-> items[j].x, y |-> items[j].y,
         fmt |-> fmt]]

\* what the Stack yields, given the layout r of its children's positions
StackItems(e, r, fmt) ==
    [items |-> WithElems(e, r.items, fmt),
     outcome |-> IF r.err THEN "raise" ELSE "ok"]

StackParams(e, width, height, x, y, fmt) ==
    StackItems(e,
               StackLayout([i \in 1..Len(content[e]) |->
                               MinSize(content[e][i], "height")],
                           width, height, x, y, attrs[e].valign),
               fmt)

\* Zebra._formats[i % 2], i counting from 0
ZebraFormat(e, i) == IF i % 2 = 0 THEN attrs[e].even_format ELSE attrs[e].odd_format

\* the items of super()._get_elements_and_parameters, enumerated and given
\* the alternating formats
ZebraItems(e, fmt, parent) ==
    [items |-> [j \in 1..Len(parent.items) |->
                   [parent.items[j] EXCEPT
                       !.fmt = ComposeFormat(fmt, ZebraFormat(e, j - 1))]],
     outcome |-> parent.outcome]

ZebraParams(e, width, height, x, y, fmt) ==
    ZebraItems(e, fmt, StackParams(e, width, height, x, y, fmt))

BoxParams(e, width, height, x, y, fmt) ==
    IF active[e] = NoElem THEN [items |-> <<>>, outcome |-> "raise"]
    ELSE [items |-> <<[elem |-> active[e], width |-> width - 2,
                       height |-> height - 2, x |-> x + 1, y |-> y + 1,
                       fmt |-> fmt]>>,
          outcome |-> "ok"]

\* what the split container yields, given the result r of
\* _calculate_element_sizes
SplitYield(e, dim, width, height, x, y, fmt, r) ==
    IF r.outcome = "ok"
    THEN [items |-> WithElems(e, SplitItems(r.size, 1, dim, width, height,
                                            x, y, 0), fmt),
          outcome |-> "ok"]
    ELSE [items |-> <<>>, outcome |-> r.outcome]

\* zip(self, self._weights) pairs the first n children and weights
SplitSizes(e, n, dim, size) ==
    calculate_element_sizes([i \in 1..n |-> MinSize(content[e][i], dim)],
                            [i \in 1..n |-> MaxSize(content[e][i], dim)],
                            SubSeq(weights[e], 1, n), size)

SplitParams(e, width, height, x, y, fmt) ==
    SplitYield(e, Dimension(e), width, height, x, y, fmt,
               SplitSizes(e, Min2(Len(content[e]), Len(weights[e])),
                          Dimension(e),
                          IF Dimension(e) = "height" THEN height ELSE width))

ElementsAndParameters(e, width, height, x, y, fmt) ==
    IF kind[e] = "Stack" THEN StackParams(e, width, height, x, y, fmt)
    ELSE IF kind[e] = "Zebra" THEN ZebraParams(e, width, height, x, y, fmt)
    ELSE IF kind[e] = "Box" THEN BoxParams(e, width, height, x, y, fmt)
    ELSE SplitParams(e, width, height, x, y, fmt)

\* the four border blocks Box._get_all_blocks adds
BoxBorder(e, width, height, x, y) ==
    LET c == attrs[e].chars
        top == <<<<c[1]>> \o PyMul(<<c[2]>>, width - 2) \o <<c[3]>>>>
        left == PyMul(<<<<c[8]>>>>, height - 2)
        bottom == <<<<c[7]>> \o PyMul(<<c[6]>>, width - 2) \o <<c[5]>>>>
        right == PyMul(<<<<c[4]>>>>, height - 2)
    IN  <<Block(x, y, top, dformat[e]),
          Block(x, y + 1, left, dformat[e]),
          Block(x, y + height - 1, bottom, dformat[e]),
          Block(x + width - 1, y + 1, right, dformat[e])>>

----------------------------------------------------------------------------
(* The draw / update protocol (base.py, container_elements.py).  A call    *)
(* works on S = [updated, geom], the fields it writes, and returns the new *)
(* S, the blocks and its outcome.                                          *)

RECURSIVE get_all_blocks(_, _, _, _, _, _, _, _, _)
RECURSIVE DrawItems(_, _, _, _, _, _)
RECURSIVE DrawRest(_, _, _, _, _, _)

\* the for loop of ABCContainerElement._get_all_blocks from item i on
DrawItems(items, i, x_crop, y_crop, S, blocks) ==
    IF i > Len(items) THEN [S |-> S, blocks |-> blocks, outcome |-> "ok"]
    ELSE DrawRest(items, i, x_crop, y_crop, blocks,
                  get_all_blocks(items[i].elem, items[i].width,
                                 items[i].height, items[i].x, items[i].y,
                                 x_crop, y_crop, items[i].fmt, S))

\* the loop after item i's get_all_blocks gave r: its blocks are collected
\* and the loop goes on, or the exception leaves the loop
DrawRest(items, i, x_crop, y_crop, blocks, r) ==
    IF r.outcome # "ok"
    THEN [S |-> r.S, blocks |-> blocks, outcome |-> r.outcome]
    ELSE DrawItems(items, i + 1, x_crop, y_crop, r.S, blocks \o r.blocks)

\* what _get_all_blocks returns when its loop over the generator gave r and
\* the generator ended with paramsOutcome; a Box adds its border
ContainerResult(e, width, height, x, y, paramsOutcome, r) ==
    IF r.outcome # "ok" THEN r
    ELSE IF paramsOutcome # "ok" THEN [r EXCEPT !.outcome = paramsOutcome]
    ELSE IF kind[e] = "Box"
    THEN [r EXCEPT !.blocks = @ \o BoxBorder(e, width, height, x, y)]
    ELSE r

\* _get_all_blocks from what _get_elements_and_parameters yields
DrawParams(e, width, height, x, y, x_crop, y_crop, fmt, S, params) ==
    ContainerResult(e, width, height, x, y, params.outcome,
        DrawItems(params.items, 1, x_crop, y_crop, S,
                  <<Block(x, y, PyMul(<<PyMul(<<" ">>, width)>>, height),
                          fmt)>>))

\* ABCContainerElement._get_all_blocks (and Box._get_all_blocks)
ContainerBlocks(e, width, height, x, y, x_crop, y_crop, fmt, S) ==
    DrawParams(e, width, height, x, y, x_crop, y_crop, fmt, S,
               ElementsAndParameters(e, width, height, x, y, fmt))

\* the end of get_all_blocks: when _get_all_blocks returned, the geometry
\* is stored and the flag cleared
StoreGeometry(e, g, r) ==
    IF r.outcome # "ok" THEN r
    ELSE [r EXCEPT !.S.geom[e] = g, !.S.updated[e] = FALSE]

\* _get_all_blocks of a container or of a display element
AllBlocks(e, width, height, x, y, x_crop, y_crop, fmt, S) ==
    IF IsContainer(e)
    THEN ContainerBlocks(e, width, height, x, y, x_crop, y_crop, fmt, S)
    ELSE [S |-> S, outcome |-> "ok",
          blocks |-> LeafBlocks(e, width, height, x, y, x_crop, y_crop, fmt)]

\* ABCUIElement.get_all_blocks
get_all_blocks(e, width, height, x, y, x_crop, y_crop, default_format, S) ==
    StoreGeometry(e, Geometry(width, height, x, y, x_crop, y_crop),
                  AllBlocks(e, width, height, x, y, x_crop, y_crop,
                            ComposeFormat(default_format, dformat[e]), S))

RECURSIVE Updated(_, _)
\* element.updated: the stored flag, or for a container also any child's
Updated(e, upd) ==
    IF IsContainer(e)
    THEN upd[e] \/ \E i \in 1..Len(content[e]) : Updated(content[e][i], upd)
    ELSE upd[e]

RECURSIVE get_updated_blocks(_, _, _)
RECURSIVE UpdateChildren(_, _, _, _, _)

\* the for loop of ABCContainerElement._get_updated_blocks from child i on
UpdateChildren(e, i, fmt, S, blocks) ==
    IF i > Len(content[e]) THEN [S |-> S, blocks |-> blocks, outcome |-> "ok"]
    ELSE LET r == get_updated_blocks(content[e][i], fmt, S)
         IN  IF r.outcome # "ok"
             THEN [S |-> r.S, blocks |-> blocks, outcome |-> r.outcome]
             ELSE UpdateChildren(e, i + 1, fmt, r.S, blocks \o r.blocks)

\* get_updated_blocks without its "if self.updated" test: it renders anew
\* whether or not the element is dirty
get_updated_blocks_Unguarded(e, default_format, S) ==
    IF S.geom[e] = NoGeom THEN [S |-> S, blocks |-> <<>>, outcome |-> "raise"]
    ELSE
        LET fmt == ComposeFormat(default_format, dformat[e])
            g == S.geom[e]
            r == IF IsContainer(e)
                 THEN UpdateChildren(e, 1, fmt, S, <<>>)
                 ELSE [S |-> S, outcome |-> "ok",
                       blocks |-> LeafBlocks(e, g.width, g.height, g.x, g.y,
                                             g.x_crop, g.y_crop, fmt)]
        IN  IF r.outcome # "ok" THEN r
            ELSE [r EXCEPT !.S.updated[e] = FALSE]

\* ABCUIElement.get_updated_blocks
get_updated_blocks(e, default_format, S) ==
    IF S.geom[e] = NoGeom THEN [S |-> S, blocks |-> <<>>, outcome |-> "raise"]
    ELSE
        LET fmt == ComposeFormat(default_format, dformat[e])
            g == S.geom[e]
            r == IF IsContainer(e)
                 THEN UpdateChildren(e, 1, fmt, S, <<>>)
                 ELSE [S |-> S, outcome |-> "ok",
                       blocks |-> LeafBlocks(e, g.width, g.height, g.x, g.y,
                                             g.x_crop, g.y_crop, fmt)]
        IN  IF ~Updated(e, S.updated)
            THEN [S |-> S, blocks |-> <<>>, outcome |-> "ok"]
            ELSE IF r.outcome # "ok" THEN r
            ELSE [r EXCEPT !.S.updated[e] = FALSE]

----------------------------------------------------------------------------
(* The element trees the model starts from.  Element 1 is the top of the   *)
(* tree; an element that is in no container is a free-standing element.    *)

DefaultAttrs ==
    [min_width |-> NoneV, max_width |-> NoneV, min_height |-> NoneV,
     max_height |-> NoneV, char |-> ".", fillchar |-> " ", halign |-> "left",
     valign |-> "top", even_format |-> <<>>, odd_format |-> <<>>,
     chars |-> <<"+", "-", "+", "|", "+", "-", "+", "|">>]

FillAttrs(e) == [DefaultAttrs EXCEPT !.char = ToString(e)]

\* a container of class k holding the Fill elements 2, 3 and 4
FlatTree(k, va, mh) ==
    [kind |-> [e \in Elems |-> IF e = 1 THEN k ELSE "Fill"],
     content |-> [e \in Elems |-> IF e = 1 THEN <<2, 3, 4>> ELSE <<>>],
     attrs |-> [e \in Elems |->
                  IF e = 1 THEN [DefaultAttrs EXCEPT !.valign = va,
                                    !.even_format = <<"even">>,
                                    !.odd_format = <<"odd">>]
                  ELSE IF e = 3 THEN [FillAttrs(e) EXCEPT !.min_height = mh]
                  ELSE FillAttrs(e)],
     dformat |-> [e \in Elems |-> <<>>]]

\* a container of class k, with a default_format, holding Fill 2 and a Stack
\* of the Fill 4
NestedTree(k) ==
    [kind |-> [e \in Elems |-> IF e = 1 THEN k ELSE IF e = 3 THEN "Stack"
                               ELSE "Fill"],
     content |-> [e \in Elems |-> IF e = 1 THEN <<2, 3>>
                                  ELSE IF e = 3 THEN <<4>> ELSE <<>>],
     attrs |-> [e \in Elems |-> IF e \in {1, 3} THEN DefaultAttrs
                                ELSE FillAttrs(e)],
     dformat |-> [e \in Elems |-> IF e = 1 THEN <<"base">> ELSE <<>>]]

\* a Box around a Stack of the Fills 3 and 4
BoxTree ==
    [kind |-> [e \in Elems |-> IF e = 1 THEN "Box" ELSE IF e = 2 THEN "Stack"
                               ELSE "Fill"],
     content |-> [e \in Elems |-> IF e = 1 THEN <<2>>
                                  ELSE IF e = 2 THEN <<3, 4>> ELSE <<>>],
     attrs |-> [e \in Elems |-> IF e \in {1, 2} THEN DefaultAttrs
                                ELSE FillAttrs(e)],
     dformat |-> [e \in Elems |-> <<>>]]

Trees ==
    {FlatTree("Stack", "top", NoneV), FlatTree("Stack", "bottom", 2),
     FlatTree("Zebra", "top", 2), FlatTree("VSplit", "top", NoneV),
     FlatTree("HSplit", "top", 2),
     NestedTree("Stack"), NestedTree("HSplit"), BoxTree}

\* add_element, as the constructors call it: the first child becomes active
FirstOrNone(s) == IF s = <<>> THEN NoElem ELSE s[1]

NoCall == [op |-> "none", elem |-> NoElem, outcome |-> "ok", blocks |-> <<>>]

\* the state after constructing one of the trees of T
TreeInitFrom(T) ==
    \E t \in T :
        /\ kind = t.kind
        /\ content = t.content
        /\ attrs = t.attrs
        /\ active = [e \in Elems |-> FirstOrNone(t.content[e])]
        /\ weights = [e \in Elems |->
                         IF t.kind[e] \in SplitKinds
                         THEN [i \in 1..Len(t.content[e]) |-> 1] ELSE <<>>]
        /\ dformat = t.dformat
        /\ updated = [e \in Elems |-> TRUE]
        /\ geom = [e \in Elems |-> NoGeom]
        /\ last = NoCall

TreeInit == TreeInitFrom(Trees)

----------------------------------------------------------------------------
(* The calls an application makes on the tree.                             *)

\* the elements get_all_blocks is called on directly
DrawTargets == {1}

Formats == {<<>>, <<"new">>}

\* the sizes the tree is drawn at
DrawSizes ==
    {<<n, n>> : n \in 0..MaxSide}

\* the call op on e has ended with r: the fields it wrote, and what the
\* caller got
Returned(op, e, r) ==
    /\ last.outcome # "hang"
    /\ updated' = r.S.updated
    /\ geom' = r.S.geom
    /\ last' = [op |-> op, elem |-> e, outcome |-> r.outcome,
                blocks |-> IF r.outcome = "ok" THEN r.blocks ELSE <<>>]
    /\ UNCHANGED <<kind, content, active, weights, attrs, dformat>>

\* element.get_all_blocks(width, height)
Draw(e, width, height) ==
    Returned("get_all_blocks", e,
             get_all_blocks(e, width, height, 0, 0, "left", "top", <<>>,
                            [updated |-> updated, geom |-> geom]))

\* element.get_updated_blocks()
Update(e) ==
    Returned("get_updated_blocks", e,
             get_updated_blocks(e, <<>>, [updated |-> updated, geom |-> geom]))

\* the default_format setter without its "self.updated = True"
SetDefaultFormat_NoFlag(e, value) ==
    /\ last.outcome # "hang"
    /\ dformat' = [dformat EXCEPT ![e] = value]
    /\ last' = [NoCall EXCEPT !.op = "default_format"]
    /\ UNCHANGED <<kind, content, active, weights, attrs, geom, updated>>

\* element.default_format = value
SetDefaultFormat(e, value) ==
    /\ last.outcome # "hang"
    /\ dformat' = [dformat EXCEPT ![e] = value]
    /\ updated' = [updated EXCEPT ![e] = TRUE]
    /\ last' = [NoCall EXCEPT !.op = "default_format"]
    /\ UNCHANGED <<kind, content, active, weights, attrs, geom>>

\* element.updated = value
SetUpdated(e, value) ==
    /\ last.outcome # "hang"
    /\ updated' = [updated EXCEPT ![e] = value]
    /\ last' = [NoCall EXCEPT !.op = "updated"]
    /\ UNCHANGED <<kind, content, active, weights, attrs, dformat, geom>>

Idle == [pc |-> "idle"]

Init ==
    /\ TreeInit
    /\ sc = Idle
    /\ sk = Idle
    /\ sv = Idle
    /\ fn = Idle
    /\ ed = Idle

Next ==
    \/ \E e \in DrawTargets, wh \in DrawSizes :
          Draw(e, wh[1], wh[2]) /\ UNCHANGED <<sc, sk, sv, fn, ed>>
    \/ \E e \in Elems : Update(e) /\ UNCHANGED <<sc, sk, sv, fn, ed>>
    \/ \E e \in Elems, f \in Formats :
          /\ ~IsContainer(e)
          /\ SetDefaultFormat(e, f)
          /\ UNCHANGED <<sc, sk, sv, fn, ed>>
    \/ \E e \in Elems, v \in BOOLEAN :
          SetUpdated(e, v) /\ UNCHANGED <<sc, sk, sv, fn, ed>>

Spec == Init /\ [][Next]_vars

----------------------------------------------------------------------------
(* SplitContainer._calculate_element_sizes run step by step on the         *)
(* minimum sizes, maximum sizes and weights of the children.               *)

MaxChildren == 3
MaxWeight == 2
MaxLimit == 2
MaxTarget == 9

\* the values get_min_size / get_max_size of a child can return
Limits == {NoneV} \cup (0..MaxLimit)

\* child i declares neither a minimum nor a maximum
Unlimited(mins, maxs, i) == mins[i] = NoneV /\ maxs[i] = NoneV

\* the declared minimums and maximums of n children, as pairs <<mins, maxs>>:
\* any limits for up to two children; of more children one, any of them,
\* has limits and the others have none
ChildLimits(n) ==
    IF n <= 2 THEN [1..n -> Limits] \X [1..n -> Limits]
    ELSE {<<[j \in 1..n |-> IF j = i THEN lo ELSE NoneV],
            [j \in 1..n |-> IF j = i THEN hi ELSE NoneV]>> :
          i \in 1..n, lo \in Limits, hi \in Limits}

\* the children, their weights and the size to share out
InitSplit ==
    /\ TreeInitFrom({BoxTree})
    /\ sk = Idle
    /\ sv = Idle
    /\ fn = Idle
    /\ ed = Idle
    /\ \E n \in 1..MaxChildren :
          \E ws \in [1..n -> 1..MaxWeight], lim \in ChildLimits(n),
             target \in 0..MaxTarget :
             sc = [pc |-> "start", mins |-> lim[1], maxs |-> lim[2], ws |-> ws,
                   target |-> target, cyc |-> <<>>,
                   st |-> SizesStart([i \in 1..n |-> 0])]

\* the first loop, and the call of weighted_round_robin
SplitSeed ==
    /\ sc.pc = "start"
    /\ sc' = [sc EXCEPT !.pc = "loop",
                        !.cyc = weighted_round_robin(sc.ws),
                        !.st = SizesStart([i \in 1..Len(sc.mins) |->
                                              PyOr(sc.mins[i], 0)])]
    /\ UNCHANGED <<treeVars, sk, sv, fn, ed>>

\* one pass through the body of the second loop
SplitStep ==
    /\ sc.pc = "loop"
    /\ sc.cyc # <<>>
    /\ sc.st.allocated < sc.target
    /\ sc' = [sc EXCEPT !.st = SizesStep(sc.st, sc.cyc, sc.maxs)]
    /\ UNCHANGED <<treeVars, sk, sv, fn, ed>>

\* the break out of the second loop (or the end of an empty cycle), and
\* the return of the sizes
SplitReturn ==
    /\ sc.pc = "loop"
    /\ sc.cyc = <<>> \/ sc.st.allocated >= sc.target
    /\ sc' = [sc EXCEPT !.pc = "done"]
    /\ UNCHANGED <<treeVars, sk, sv, fn, ed>>

NextSplit == SplitSeed \/ SplitStep \/ SplitReturn

SpecSplit == InitSplit /\ [][NextSplit]_vars

----------------------------------------------------------------------------
(* Properties of the draw / update protocol.                               *)

RECURSIVE Subtree(_)
\* e and everything below it
Subtree(e) ==
    {e} \cup UNION {Subtree(content[e][i]) : i \in 1..Len(content[e])}

Containers == {e \in Elems : IsContainer(e)}
Leaves == Elems \ Containers

\* every element at or below c has been laid out
FullyDrawn(c) == \A d \in Subtree(c) : geom[d] # NoGeom

\* no element at or below c has its stored flag set, in the flags upd
Clean(c, upd) == \A d \in Subtree(c) : ~upd[d]

RECURSIVE PathFormat(_, _)
\* the formats of the containers from c down to the parent of leaf l, composed
PathFormat(c, l) ==
    IF c = l THEN <<>>
    ELSE LET below == CHOOSE i \in 1..Len(content[c]) : l \in Subtree(content[c][i])
         IN  ComposeFormat(dformat[c], PathFormat(content[c][below], l))

Max0(n) == IF n > 0 THEN n ELSE 0

\* the block of a Fill that fills the stored geometry g with character ch
FilledBlock(g, ch, fmt) ==
    [x |-> g.x, y |-> g.y, fmt |-> fmt,
     lines |-> [i \in 1..Max0(g.height) |-> [j \in 1..Max0(g.width) |-> ch]]]

\* the step is the call get_updated_blocks() on e
IsUpdateOf(e) == last'.op = "get_updated_blocks" /\ last'.elem = e

\* C1, first half: in a fully drawn, clean tree, assigning a leaf's
\* default_format sets the leaf's updated and makes every container above it
\* report updated, while every other leaf of the tree stays clean.
C1_AssignMarksPath ==
    \A c \in Containers : \A l \in Subtree(c) \cap Leaves : \A f \in Formats :
        (FullyDrawn(c) /\ Clean(c, updated) /\ SetDefaultFormat(l, f))
        => /\ updated'[l]
           /\ \A a \in Subtree(c) \cap Containers :
                 (l \in Subtree(a)) => Updated(a, updated')
           /\ \A s \in (Subtree(c) \cap Leaves) \ {l} : ~updated'[s]

\* C1, second half: when exactly one leaf of a fully drawn tree is dirty,
\* get_updated_blocks on the container returns exactly that leaf's block, at
\* the leaf's stored geometry and with the leaf's format, and leaves the
\* container and every element below it clean.
C1_UpdateReturnsLeaf ==
    \A c \in Containers : \A l \in Subtree(c) \cap Leaves :
        (/\ FullyDrawn(c)
         /\ \A d \in Subtree(c) : updated[d] <=> d = l
         /\ IsUpdateOf(c))
        => /\ last'.outcome = "ok"
           /\ last'.blocks =
                <<FilledBlock(geom[l], attrs[l].char,
                              ComposeFormat(PathFormat(c, l), dformat[l]))>>
           /\ \A d \in Subtree(c) : ~Updated(d, updated')
           /\ geom' = geom

\* C1: in a fully drawn tree, assigning one leaf's default_format dirties the
\* leaf and its ancestors only, and the next get_updated_blocks on the
\* container returns exactly the leaf's block and clears every flag.
C1_DirtyLeafUpdate == [][C1_AssignMarksPath /\ C1_UpdateReturnsLeaf]_vars

\* a container's get_updated_blocks has just returned one block with the
\* assigned format, from a fully drawn tree
C1_Witness ==
    /\ last.op = "get_updated_blocks"
    /\ last.elem \in Containers
    /\ last.outcome = "ok"
    /\ Len(last.blocks) = 1
    /\ \E l \in Subtree(last.elem) \cap Leaves :
          /\ dformat[l] = <<"new">>
          /\ last.blocks[1].fmt = ComposeFormat(PathFormat(last.elem, l), <<"new">>)
          /\ last.blocks[1].lines # <<>>
    /\ FullyDrawn(last.elem)
    /\ Clean(last.elem, updated)

\* C2: after get_all_blocks has returned on a container, the container's
\* updated is False.
C2_CleanAfterDraw ==
    (last.op = "get_all_blocks" /\ last.outcome = "ok" /\ last.elem \in Containers)
    => ~Updated(last.elem, updated)

\* C3: once get_all_blocks has returned on a container, get_updated_blocks on
\* that container does not raise the update-before-draw error.
C3_UpdateAfterDraw ==
    [][\A c \in Containers :
          (geom[c] # NoGeom /\ IsUpdateOf(c)) => last'.outcome # "raise"]_vars

\* C4: get_updated_blocks raises on an element get_all_blocks was never called
\* on, whatever its updated flag, and changes nothing; on an element
\* get_all_blocks has been called on, it does not raise.
C4_UpdateBeforeDraw ==
    [][\A e \in Elems :
          IsUpdateOf(e)
          => IF geom[e] = NoGeom
             THEN last'.outcome = "raise" /\ updated' = updated /\ geom' = geom
             ELSE last'.outcome # "raise"]_vars

RepaintTrees ==
    {FlatTree("Zebra", "top", NoneV), NestedTree("Stack"),
     NestedTree("HSplit")}

InitRepaint ==
    /\ TreeInitFrom(RepaintTrees)
    /\ sc = Idle
    /\ sk = Idle
    /\ sv = Idle
    /\ fn = Idle
    /\ ed = Idle

SpecRepaint == InitRepaint /\ [][Next]_vars

\* the blocks of a full draw of c at its stored geometry
FreshBlocks(c) ==
    get_all_blocks(c, geom[c].width, geom[c].height, geom[c].x, geom[c].y,
                   geom[c].x_crop, geom[c].y_crop, <<>>,
                   [updated |-> updated, geom |-> geom]).blocks

\* a full draw of c at its stored geometry returns, lays out every element
\* at or below c and gives each the geometry it has stored
SameGeometry(c) ==
    /\ get_all_blocks(c, geom[c].width, geom[c].height, geom[c].x, geom[c].y,
                      geom[c].x_crop, geom[c].y_crop, <<>>,
                      [updated |-> updated,
                       geom |-> [e \in Elems |-> NoGeom]]).outcome = "ok"
    /\ \A d \in Subtree(c) :
          get_all_blocks(c, geom[c].width, geom[c].height, geom[c].x,
                         geom[c].y, geom[c].x_crop, geom[c].y_crop, <<>>,
                         [updated |-> updated,
                          geom |-> [e \in Elems |-> NoGeom]]).S.geom[d]
              = geom[d]

\* C27: every block that get_updated_blocks on a fully drawn container
\* returns for a dirty leaf is, in position, lines and format, a block that
\* a full draw of the container at the same geometry returns.
C27_UpdateEqualsDraw ==
    [][\A c \in Containers :
          (/\ FullyDrawn(c)
           /\ SameGeometry(c)
           /\ IsUpdateOf(c)
           /\ last'.outcome = "ok")
          => \A i \in 1..Len(last'.blocks) :
                \E j \in 1..Len(FreshBlocks(c)) :
                   FreshBlocks(c)[j] = last'.blocks[i]]_vars

\* block b lies inside the rectangle of geometry g
InsideRectangle(b, g) ==
    /\ b.x >= g.x
    /\ b.y >= g.y
    /\ b.y + Len(b.lines) <= g.y + g.height
    /\ \A i \in 1..Len(b.lines) : b.x + Len(b.lines[i]) <= g.x + g.width

\* C28: every block that get_all_blocks(width, height, x, y, x_crop, y_crop)
\* returns lies inside the allotted rectangle: it starts at or after (x, y),
\* ends at or before row y + height, and no line of it passes column
\* x + width.
C28_BlocksInsideRectangle ==
    (last.op = "get_all_blocks" /\ last.outcome = "ok")
    => \A i \in 1..Len(last.blocks) :
          InsideRectangle(last.blocks[i], geom[last.elem])

\* C29: reading min_width, min_height, max_width or max_height of a split
\* container never raises, whatever its children declare.
C29_SplitSizesNeverRaise ==
    \A e \in Elems :
        kind[e] \in SplitKinds
        => \A dim \in {"width", "height"} :
              MinSize(e, dim) # ErrV /\ MaxSize(e, dim) # ErrV

----------------------------------------------------------------------------
(* Properties of the weighted split allocation (under SpecSplit).          *)

SplitChildren == 1..Len(sc.ws)

\* child i declares a maximum and has reached it
AtMax(i) == sc.maxs[i] # NoneV /\ sc.st.size[i] >= sc.maxs[i]

\* the minimum the first loop gives child i
MinOrZero(i) == PyOr(sc.mins[i], 0)

\* every child's declared minimum is at most its declared maximum
DeclaredMinLeMax ==
    \A i \in SplitChildren :
        sc.mins[i] = NoneV \/ sc.maxs[i] = NoneV \/ sc.mins[i] <= sc.maxs[i]

\* sum of mins <= target <= sum of maxes, an absent max being unbounded
TargetInRange ==
    /\ SeqSum([i \in SplitChildren |-> MinOrZero(i)]) <= sc.target
    /\ NoneV \in Range(sc.maxs) \/ sc.target <= SeqSum(sc.maxs)

\* C6: the allocation loop stops as soon as the total allocated has reached
\* the target or every child has reached its max: from such a state of the
\* loop the only step is the return of the sizes.
C6_StopsAtTargetOrAllMax ==
    [][(/\ sc.pc = "loop"
        /\ \/ sc.st.allocated >= sc.target
           \/ \A i \in SplitChildren : AtMax(i))
       => sc'.pc = "done"]_vars

\* C7: when the children declare min <= max, every child's size is at least
\* its declared min (0 if none) and at most its declared max (if any), all
\* through the allocation and in its result; and when sum of mins <= target
\* <= sum of maxes the returned sizes sum to exactly the target.
C7_HonoursMinMax ==
    (sc.pc \in {"loop", "done"} /\ DeclaredMinLeMax)
    => /\ \A i \in SplitChildren :
             /\ sc.st.size[i] >= MinOrZero(i)
             /\ sc.maxs[i] # NoneV => sc.st.size[i] <= sc.maxs[i]
       /\ (sc.pc = "done" /\ TargetInRange) => SeqSum(sc.st.size) = sc.target

\* an allocation has returned in which one child was stopped at its max,
\* above its min, and another declaring a min got more than that min
C7_Witness ==
    /\ sc.pc = "done"
    /\ DeclaredMinLeMax
    /\ TargetInRange
    /\ SeqSum(sc.st.size) = sc.target
    /\ \E i, j \in SplitChildren :
          /\ i # j
          /\ AtMax(i)
          /\ sc.st.size[i] > MinOrZero(i)
          /\ sc.mins[j] \notin {NoneV, 0}
          /\ sc.st.size[j] > sc.mins[j]

\* no child declares a min or a max
NoLimits == \A i \in SplitChildren : Unlimited(sc.mins, sc.maxs, i)

\* C8: without min/max, with weights w_i summing to W, a target k*W gives
\* child i exactly k*w_i; any other target gives child i floor(target/W)*w_i
\* plus at most w_i units of the remainder, the sizes summing to the target
\* and a heaviest child having received a unit of the remainder; weights
\* (1,2) at target 9 give (3,6) and weights (1,1,2) at target 8 give (2,2,4).
C8_Proportional ==
    (sc.pc = "done" /\ NoLimits)
    => LET W == SeqSum(sc.ws)
           k == sc.target \div W
           r == sc.target % W
           size == sc.st.size
       IN  /\ SeqSum(size) = sc.target
           /\ \A i \in SplitChildren :
                 /\ size[i] >= k * sc.ws[i]
                 /\ size[i] <= k * sc.ws[i] + sc.ws[i]
                 /\ r = 0 => size[i] = k * sc.ws[i]
           /\ r > 0 => \E i \in SplitChildren :
                          /\ sc.ws[i] = SeqMax(sc.ws)
                          /\ size[i] > k * sc.ws[i]
           /\ (sc.ws = <<1, 2>> /\ sc.target = 9) => size = <<3, 6>>
           /\ (sc.ws = <<1, 1, 2>> /\ sc.target = 8) => size = <<2, 2, 4>>

\* weights (1,2) without limits have been given (3,6) of the target 9
C8_Witness ==
    /\ sc.pc = "done"
    /\ NoLimits
    /\ sc.ws = <<1, 2>>
    /\ sc.target = 9
    /\ sc.st.size = <<3, 6>>

----------------------------------------------------------------------------
(* Stack._get_elements_and_parameters on its own: one Stack, given its     *)
(* children's min_heights, laid out once.                                  *)

MaxStack == 3
MaxMinHeight == 3
MaxHeight == 5
MaxY == 1

\* the stacks of up to MaxStack children
StackMins ==
    UNION {[1..n -> {NoneV} \cup (0..MaxMinHeight)] : n \in 0..MaxStack}

InitStack ==
    /\ TreeInitFrom({BoxTree})
    /\ sc = Idle
    /\ sv = Idle
    /\ fn = Idle
    /\ ed = Idle
    /\ \E mins \in StackMins, height \in 0..MaxHeight, y \in 0..MaxY,
          valign \in {"top", "bottom"} :
          sk = [pc |-> "start", mins |-> mins, height |-> height, y |-> y,
                valign |-> valign, items |-> <<>>]

\* the Stack is laid out in a region of the given height at row y
StackDraw ==
    /\ sk.pc = "start"
    /\ sk' = [sk EXCEPT !.pc = "done",
                        !.items = StackLayout(sk.mins, 1, sk.height, 0, sk.y,
                                              sk.valign).items]
    /\ UNCHANGED <<treeVars, sc, sv, fn, ed>>

NextStack == StackDraw

SpecStack == InitStack /\ [][NextStack]_vars

\* the rows given to the first k children visited
RowsUsed(k) == SeqSum([j \in 1..k |-> sk.items[j].height])

\* the rows of the k-th visited child
RowsOf(k) == sk.items[k].y .. (sk.items[k].y + sk.items[k].height - 1)

\* C9: the children are visited in insertion order (valign top) or reverse
\* insertion order (valign bottom); each visited child gets min(remaining
\* height, min_height or 1) rows, contiguous with the previous child's, going
\* down from y or up from y+H; allocation stops at the first child for which
\* no rows remain; the row ranges are pairwise disjoint, lie in [y, y+H) and
\* their heights sum to at most H; min_heights 2,2,2 at height 4 lay out
\* exactly the first two children.
C9_StackLayout ==
    sk.pc = "done"
    => LET n == Len(sk.mins)
           m == Len(sk.items)
           H == sk.height
           top == sk.valign = "top"
       IN  /\ m <= n
           /\ \A k \in 1..m :
                 LET it == sk.items[k]
                     child == IF top THEN k ELSE n + 1 - k
                     wanted == IF sk.mins[child] \in {NoneV, 0} THEN 1
                               ELSE sk.mins[child]
                 IN  /\ it.pos = child
                     /\ it.height = Min2(H - RowsUsed(k - 1), wanted)
                     /\ it.height > 0
                     /\ it.y = IF top THEN sk.y + RowsUsed(k - 1)
                               ELSE sk.y + H - RowsUsed(k)
                     /\ RowsOf(k) \subseteq sk.y .. (sk.y + H - 1)
           /\ m < n => RowsUsed(m) = H
           /\ \A k, l \in 1..m : k # l => RowsOf(k) \cap RowsOf(l) = {}
           /\ RowsUsed(m) <= H
           /\ (sk.mins = <<2, 2, 2>> /\ H = 4)
              => m = 2 /\ sk.items[1].pos = (IF top THEN 1 ELSE 3)
                       /\ sk.items[2].pos = 2

\* min_heights 2,2,2 at height 4, valign top: the first two children have
\* been laid out, two rows each, and the third has none
C9_Witness ==
    /\ sk.pc = "done"
    /\ sk.mins = <<2, 2, 2>>
    /\ sk.height = 4
    /\ sk.valign = "top"
    /\ Len(sk.items) = 2
    /\ sk.items[1].pos = 1 /\ sk.items[1].height = 2
    /\ sk.items[2].pos = 2 /\ sk.items[2].height = 2

----------------------------------------------------------------------------
(* Concatenation of strings with formatting (formatting.py).  A plain str  *)
(* is [t |-> "str", text], a StringComponent is [t |-> "comp", ph, text]   *)
(* and a StringWithFormatting is [t |-> "swf", content], content being a  *)
(* tuple of StringComponents.  A placeholder is the identity of the object *)
(* (the code compares placeholders with "is").                             *)

MaxText == 4

null_placeholder == "null"
Placeholders == {null_placeholder, "bold", "red"}

Str(text) == [t |-> "str", text |-> text]
StringComponent(placeholder, text) ==
    [t |-> "comp", ph |-> placeholder, text |-> text]
StringWithFormatting(content_) == [t |-> "swf", content |-> content_]

\* StringComponent.__radd__: other is a plain str
StringComponent_radd(self, other) ==
    StringWithFormatting(<<StringComponent(null_placeholder, other.text), self>>)

\* StringComponent.__add__ with a StringComponent or a plain str
StringComponent_add(self, other) ==
    IF other.t = "comp" THEN
        IF other.ph = self.ph
        THEN StringComponent(self.ph, self.text \o other.text)
        ELSE StringWithFormatting(<<self, other>>)
    ELSE
        IF self.ph = null_placeholder
        THEN StringComponent(null_placeholder, self.text \o other.text)
        ELSE StringWithFormatting(
                 <<self, StringComponent(null_placeholder, other.text)>>)

\* StringWithFormatting.__add__
StringWithFormatting_add(self, other) ==
    LET n == Len(self.content)
        last_ == self.content[n]
        init == SubSeq(self.content, 1, n - 1)
    IN  IF other.t = "swf"
        THEN StringWithFormatting(self.content \o other.content)
        ELSE IF other.t = "comp" THEN
            IF other.ph = last_.ph
            THEN StringWithFormatting(
                     Append(init, StringComponent_add(last_, other)))
            ELSE StringWithFormatting(Append(self.content, other))
        ELSE
            IF last_.ph = null_placeholder
            THEN StringWithFormatting(
                     Append(init, StringComponent_add(last_,
                         StringComponent(null_placeholder, other.text))))
            ELSE StringWithFormatting(
                     Append(self.content,
                            StringComponent(null_placeholder, other.text)))

\* StringWithFormatting.__radd__: other is a StringComponent or a plain str
StringWithFormatting_radd(self, other) ==
    LET first == self.content[1]
        rest == Tail(self.content)
    IN  IF other.t = "comp" THEN
            IF other.ph = first.ph
            THEN StringWithFormatting(
                     <<StringComponent_add(other, first)>> \o rest)
            ELSE StringWithFormatting(<<other>> \o self.content)
        ELSE
            IF first.ph = null_placeholder
            THEN StringWithFormatting(
                     <<StringComponent_add(
                           StringComponent(null_placeholder, other.text),
                           first)>> \o rest)
            ELSE StringWithFormatting(
                     <<StringComponent(null_placeholder, other.text)>>
                     \o self.content)

\* a + b, as Python dispatches it: the reflected method of a StringComponent
\* (a subclass of str) is tried before str.__add__
Add(a, b) ==
    IF a.t = "str" THEN
        IF b.t = "str" THEN Str(a.text \o b.text)
        ELSE IF b.t = "comp" THEN StringComponent_radd(b, a)
        ELSE StringWithFormatting_radd(b, a)
    ELSE IF a.t = "comp" THEN
        IF b.t = "swf" THEN StringWithFormatting_radd(b, a)
        ELSE StringComponent_add(a, b)
    ELSE StringWithFormatting_add(a, b)

\* the runs a value stores
Runs(v) ==
    IF v.t = "swf" THEN v.content ELSE IF v.t = "comp" THEN <<v>> ELSE <<>>

RECURSIVE Join(_)
\* ''.join(c)
Join(c) == IF c = <<>> THEN <<>> ELSE Head(c).text \o Join(Tail(c))

\* str(v)
Text(v) ==
    IF v.t = "swf" THEN
        Join(v.content)
    ELSE v.text

RECURSIVE SliceLoop(_, _, _, _, _, _)
\* the loop of StringWithFormatting._get_slice from component i on
SliceLoop(content_, i, comp_start, slice_start, slice_stop, result) ==
    IF i > Len(content_) THEN result
    ELSE
        LET component == content_[i]
            comp_stop == comp_start + Len(component.text)
            added ==
                IF comp_start >= slice_start /\ comp_stop <= slice_stop
                THEN Append(result, component)
                ELSE IF comp_start < slice_start /\ slice_start < comp_stop
                THEN Append(result,
                            [component EXCEPT
                                !.text = PySlice(@, slice_start - comp_start,
                                                 slice_stop - comp_start)])
                ELSE IF comp_start < slice_stop /\ slice_stop <= comp_stop
                THEN Append(result,
                            [component EXCEPT
                                !.text = PySlice(@, NoneV,
                                                 slice_stop - comp_start)])
                ELSE result
        IN  IF comp_stop >= slice_stop THEN added
            ELSE SliceLoop(content_, i + 1, comp_stop, slice_start, slice_stop,
                           added)

\* StringWithFormatting._get_slice; NoneV stands for an omitted bound
get_slice(self, start, stop) ==
    StringWithFormatting(
        SliceLoop(self.content, 1, 0,
                  IF start # NoneV THEN start ELSE 0,
                  Min2(IF stop # NoneV THEN stop ELSE Len(Text(self)),
                       Len(Text(self))),
                  <<>>))

\* the values concatenation starts from: a plain str and one-character runs
Atoms ==
    {Str(<<"x">>), StringComponent(null_placeholder, <<"n">>),
     StringComponent("bold", <<"A">>), StringComponent("bold", <<"B">>),
     StringComponent("red", <<"C">>)}

\* the operands: the atoms and the sums of two atoms
Operands == Atoms \cup {Add(a, b) : a, b \in Atoms}

InitStr ==
    /\ TreeInitFrom({BoxTree})
    /\ sc = Idle
    /\ sk = Idle
    /\ fn = Idle
    /\ ed = Idle
    /\ \E a \in Atoms : sv = [pc |-> "val", val |-> a]

\* val = val + o
AddRight(o) ==
    /\ sv.pc = "val"
    /\ Len(Text(sv.val)) + Len(Text(o)) <= MaxText
    /\ sv' = [sv EXCEPT !.val = Add(sv.val, o)]
    /\ UNCHANGED <<treeVars, sc, sk, fn, ed>>

\* val = o + val
AddLeft(o) ==
    /\ sv.pc = "val"
    /\ Len(Text(sv.val)) + Len(Text(o)) <= MaxText
    /\ sv' = [sv EXCEPT !.val = Add(o, sv.val)]
    /\ UNCHANGED <<treeVars, sc, sk, fn, ed>>

\* val[a:b] of a StringWithFormatting, for 0 <= a <= b <= len(val); the
\* value sliced and the result are kept
Slice(a, b) ==
    /\ sv.pc = "val"
    /\ sv.val.t = "swf"
    /\ a <= b /\ b <= Len(Text(sv.val))
    /\ sv' = [pc |-> "slice", val |-> sv.val, a |-> a, b |-> b,
              res |-> get_slice(sv.val, a, b)]
    /\ UNCHANGED <<treeVars, sc, sk, fn, ed>>

NextStr ==
    \/ \E o \in Operands : AddRight(o)
    \/ \E o \in Operands : AddLeft(o)
    \/ \E a, b \in 0..MaxText : Slice(a, b)

SpecStr == InitStr /\ [][NextStr]_vars

\* C10: in a styled string built by concatenation no two adjacent stored
\* runs carry the same placeholder, and Bold('A') + Bold('B') is the single
\* run Bold('AB').
C10_NoAdjacentSamePlaceholder ==
    /\ \A i \in 1..(Len(Runs(sv.val)) - 1) :
          Runs(sv.val)[i].ph # Runs(sv.val)[i + 1].ph
    /\ Add(StringComponent("bold", <<"A">>), StringComponent("bold", <<"B">>))
       = StringComponent("bold", <<"A", "B">>)

\* C11: for a styled string s and 0 <= a <= b <= len(s), len(s[a:b]) is
\* b - a, empty slices and bounds on a run boundary or at len(s) included.
C11_SliceLength ==
    sv.pc = "slice" => Len(Text(sv.res)) = sv.b - sv.a

----------------------------------------------------------------------------
(* crop_or_expand (util.py) on its own: one call on a sequence, with a     *)
(* default of one unit.                                                    *)

MaxSeq == 4
MaxLength == 5

\* the sequences of up to MaxSeq elements
CropSeqs == UNION {[1..n -> {"a", "b", "c"}] : n \in 0..MaxSeq}

InitCrop ==
    /\ TreeInitFrom({BoxTree})
    /\ sc = Idle
    /\ sk = Idle
    /\ sv = Idle
    /\ ed = Idle
    /\ \E iterable \in CropSeqs, length \in 0..MaxLength,
          scheme \in {"beginning", "middle", "end"} :
          fn = [pc |-> "start", iterable |-> iterable, length |-> length,
                scheme |-> scheme, default |-> <<" ">>, result |-> <<>>]

\* result = crop_or_expand(iterable, length, default, scheme)
CropOrExpand ==
    /\ fn.pc = "start"
    /\ fn' = [fn EXCEPT !.pc = "done",
                        !.result = crop_or_expand(fn.iterable, fn.length,
                                                  fn.default, fn.scheme)]
    /\ UNCHANGED <<treeVars, sc, sk, sv, ed>>

NextCrop == CropOrExpand

SpecCrop == InitCrop /\ [][NextCrop]_vars

\* C12: a sequence longer than target_length >= 0 is cropped to exactly
\* target_length elements: the first ones for scheme beginning, the last ones
\* for scheme end, and for scheme middle the ones left when floor(extra/2)
\* elements are dropped from the front and the rest of the extra from the
\* back.
C12_Crop ==
    (fn.pc = "done" /\ Len(fn.iterable) > fn.length)
    => LET n == Len(fn.iterable)
           extra == n - fn.length
       IN  /\ Len(fn.result) = fn.length
           /\ fn.scheme = "beginning"
              => fn.result = SubSeq(fn.iterable, 1, fn.length)
           /\ fn.scheme = "end"
              => fn.result = SubSeq(fn.iterable, n - fn.length + 1, n)
           /\ fn.scheme = "middle"
              => fn.result = SubSeq(fn.iterable, (extra \div 2) + 1,
                                    (extra \div 2) + fn.length)

\* C13: a sequence shorter than target_length is padded with the one-unit
\* default to exactly target_length: all padding after it for scheme
\* beginning, all before it for scheme end, and on both sides for scheme
\* middle, the trailing side getting the extra unit of an odd padding.
C13_Expand ==
    (fn.pc = "done" /\ Len(fn.iterable) < fn.length)
    => LET missing == fn.length - Len(fn.iterable)
           pad(k) == [i \in 1..k |-> fn.default[1]]
       IN  /\ Len(fn.result) = fn.length
           /\ fn.scheme = "beginning"
              => fn.result = fn.iterable \o pad(missing)
           /\ fn.scheme = "end"
              => fn.result = pad(missing) \o fn.iterable
           /\ fn.scheme = "middle"
              => fn.result = pad(missing \div 2) \o fn.iterable
                                 \o pad(missing - (missing \div 2))

\* C13 as the code and its tests have it: the padding is as above, except
\* that for scheme middle the leading side gets the extra unit of an odd
\* padding.
C13_ExpandLeadingOdd ==
    (fn.pc = "done" /\ Len(fn.iterable) < fn.length)
    => LET missing == fn.length - Len(fn.iterable)
           pad(k) == [i \in 1..k |-> fn.default[1]]
       IN  /\ Len(fn.result) = fn.length
           /\ fn.scheme = "beginning"
              => fn.result = fn.iterable \o pad(missing)
           /\ fn.scheme = "end"
              => fn.result = pad(missing) \o fn.iterable
           /\ fn.scheme = "middle"
              => fn.result = pad(missing - (missing \div 2)) \o fn.iterable
                                 \o pad(missing \div 2)

\* 'ab' expanded to 5 with scheme middle: two units before, one after
C13_Witness ==
    /\ fn.pc = "done"
    /\ fn.scheme = "middle"
    /\ fn.iterable = <<"a", "b">>
    /\ fn.length = 5
    /\ fn.result = <<" ", " ", "a", "b", " ">>

----------------------------------------------------------------------------
(* TextWrapper.wrap (textwrap.py) on a plain str of letters and spaces,    *)
(* one pass of its outer loop at a time.  On such a text the word          *)
(* separator regex splits at the boundaries between runs of spaces and     *)
(* runs of letters.                                                        *)

MaxWrapText == 6
MaxWidth == 3
MaxLines == 6

IsSpace(c) == c = " "

RECURSIVE RunEnd(_, _)
\* the last position of the run of letters, or of spaces, that starts at i
RunEnd(text, i) ==
    IF i < Len(text) /\ IsSpace(text[i + 1]) = IsSpace(text[i])
    THEN RunEnd(text, i + 1) ELSE i

RECURSIVE ChunkFrom(_, _)
ChunkFrom(text, i) ==
    IF i > Len(text) THEN <<>>
    ELSE <<SubSeq(text, i, RunEnd(text, i))>>
         \o ChunkFrom(text, RunEnd(text, i) + 1)

\* TextWrapper._chunk of a plain str: the non-empty pieces of regex.split
Chunk(text) == ChunkFrom(text, 1)

\* str(chunk.strip()) == ''
Blank(chunk) == \A i \in 1..Len(chunk) : IsSpace(chunk[i])

RECURSIVE LStrip(_)
\* TextWrapper._lstrip
LStrip(chunks) ==
    IF chunks # <<>> /\ Blank(Head(chunks)) THEN LStrip(Tail(chunks))
    ELSE chunks

RECURSIVE RStrip(_)
\* TextWrapper._rstrip
RStrip(chunks) ==
    IF chunks # <<>> /\ Blank(chunks[Len(chunks)])
    THEN RStrip(SubSeq(chunks, 1, Len(chunks) - 1))
    ELSE chunks

RECURSIVE FillLine(_, _, _, _, _)
\* the inner while loop of wrap: chunks are moved to the current line while
\* they fit; current_chunk_length is the length of the chunk looked at last
FillLine(chunks, current_line, current_line_length, current_chunk_length, width) ==
    IF chunks = <<>> \/ current_line_length + Len(Head(chunks)) > width
    THEN [chunks |-> chunks, current_line |-> current_line,
          current_line_length |-> current_line_length,
          current_chunk_length |-> IF chunks = <<>> THEN current_chunk_length
                                   ELSE Len(Head(chunks))]
    ELSE FillLine(Tail(chunks), Append(current_line, Head(chunks)),
                  current_line_length + Len(Head(chunks)), Len(Head(chunks)),
                  width)

\* the long chunk cut at width, whatever the line already holds
SplitLongChunk_FullWidth(f, width) ==
    IF f.current_chunk_length > width
    THEN [f EXCEPT
             !.current_line = Append(@, PySlice(f.chunks[1], NoneV, width)),
             !.chunks[1] = PySlice(@, width, NoneV)]
    ELSE f

\* "Handle case where chunk is bigger than an entire line"
SplitLongChunk(f, width) ==
    IF f.current_chunk_length > width
    THEN [f EXCEPT
             !.current_line =
                 Append(@, PySlice(f.chunks[1], NoneV,
                                   width - f.current_line_length)),
             !.chunks[1] = PySlice(@, width - f.current_line_length, NoneV)]
    ELSE f

RECURSIVE Concat(_)
\* reduce(lambda x, y: x + y, current_line[1:], current_line[0])
Concat(line) == IF line = <<>> THEN <<>> ELSE Head(line) \o Concat(Tail(line))

\* the end of a pass: the line is stripped on the right and appended to the
\* result, an empty str standing for an empty line
EndLine(f, result) ==
    [chunks |-> f.chunks,
     result |-> Append(result, Concat(RStrip(f.current_line)))]

\* one pass of the outer while loop of wrap
WrapPass(chunks, result, width) ==
    EndLine(SplitLongChunk(FillLine(LStrip(chunks), <<>>, 0, 0, width), width),
            result)

WrapTexts == UNION {[1..n -> {"a", "b", " "}] : n \in 0..MaxWrapText}

InitWrap ==
    /\ TreeInitFrom({BoxTree})
    /\ sc = Idle
    /\ sk = Idle
    /\ sv = Idle
    /\ ed = Idle
    /\ \E text \in WrapTexts, width \in 0..MaxWidth :
          fn = [pc |-> "start", text |-> text, width |-> width,
                chunks |-> <<>>, result |-> <<>>]

\* chunks = self._chunk(text)
WrapChunk ==
    /\ fn.pc = "start"
    /\ fn' = [fn EXCEPT !.pc = "loop", !.chunks = Chunk(fn.text)]
    /\ UNCHANGED <<treeVars, sc, sk, sv, ed>>

\* one pass of "while chunks"; the model follows a run for MaxLines lines
WrapLine ==
    /\ fn.pc = "loop"
    /\ fn.chunks # <<>>
    /\ Len(fn.result) < MaxLines
    /\ fn' = [fn EXCEPT
                 !.chunks = WrapPass(fn.chunks, fn.result, fn.width).chunks,
                 !.result = WrapPass(fn.chunks, fn.result, fn.width).result]
    /\ UNCHANGED <<treeVars, sc, sk, sv, ed>>

\* "while chunks" ends and wrap returns result
WrapReturn ==
    /\ fn.pc = "loop"
    /\ fn.chunks = <<>>
    /\ fn' = [fn EXCEPT !.pc = "done"]
    /\ UNCHANGED <<treeVars, sc, sk, sv, ed>>

NextWrap == WrapChunk \/ WrapLine \/ WrapReturn

SpecWrap == InitWrap /\ [][NextWrap]_vars

\* the number of characters still to be wrapped
CharsLeft(chunks) == Len(Concat(chunks))

\* C14: wrap terminates for every text and every width >= 0: every pass of
\* its loop leaves fewer characters to wrap than it found.
C14_WrapTerminates ==
    [][(fn.pc = "loop" /\ fn'.pc = "loop")
       => CharsLeft(fn'.chunks) < CharsLeft(fn.chunks)]_vars

\* C15: wrapping an empty input at a width >= 1 yields exactly one line, and
\* that line is empty.
C15_WrapEmpty ==
    (fn.pc = "done" /\ fn.text = <<>> /\ fn.width >= 1)
    => fn.result = << <<>> >>

\* the characters of s without its trailing spaces
RStripChars(str) ==
    IF \A i \in 1..Len(str) : IsSpace(str[i]) THEN <<>>
    ELSE SubSeq(str, 1, CHOOSE i \in 1..Len(str) :
                           /\ ~IsSpace(str[i])
                           /\ \A j \in (i + 1)..Len(str) : IsSpace(str[j]))

\* the pass over chunks stops at a chunk that is longer than width
CutsChunk(chunks, width) ==
    FillLine(LStrip(chunks), <<>>, 0, 0, width).chunks # <<>>
    /\ FillLine(LStrip(chunks), <<>>, 0, 0, width).current_chunk_length > width

----------------------------------------------------------------------------
(* Editing containers (container_elements.py, display_elements.py).  The   *)
(* application has built  v = VerticalSplitContainer(t3),  s = Stack()  and *)
(* Root(v): elements 1 (v) and 2 (s) are containers, 3 and 4 are Text      *)
(* elements.  ed.supplied[c][i] remembers the weight that was supplied     *)
(* when the child in slot i of c, or the child it replaced, was added.     *)

MaxContent == 2

\* the weights the application supplies
EdWeights == {1, 2}

EdContainers == {1, 2}
EdSplit == {1}
EdLeaves == {3, 4}
EdElems == EdContainers \cup EdLeaves

\* what the application puts into container c: Text elements, and the
\* Stack into the split container
EdChildren(c) == IF c \in EdSplit THEN EdElems \ {c} ELSE EdLeaves

TheRoot == "root"
NoRoot == "none"

\* list.index(e), counting from 1; 0 when list.index raises ValueError
IndexOf(list, e) ==
    IF \E i \in 1..Len(list) : list[i] = e
    THEN CHOOSE i \in 1..Len(list) :
             list[i] = e /\ \A j \in 1..(i - 1) : list[j] # e
    ELSE 0

RECURSIVE EdSubtree(_, _)
\* e and, if e is a container, everything in it
EdSubtree(cont, e) ==
    IF e \in EdContainers
    THEN {e} \cup UNION {EdSubtree(cont, cont[e][i]) : i \in 1..Len(cont[e])}
    ELSE {e}

\* element.root = r: the root setter of a container hands r on to its
\* children
SetRoot(root, cont, e, r) ==
    [x \in EdElems |-> IF x \in EdSubtree(cont, e) THEN r ELSE root[x]]

\* what a call leaves behind: whether it raised and whether it asked the
\* Root to draw or update; elem is the Text element whose content was set
EdCall(op, e, outcome, repaint) ==
    [op |-> op, elem |-> e, outcome |-> outcome, repaint |-> repaint]

InitEdit ==
    /\ TreeInitFrom({BoxTree})
    /\ sc = Idle
    /\ sk = Idle
    /\ sv = Idle
    /\ fn = Idle
    /\ ed = [content |-> [c \in EdContainers |-> IF c = 1 THEN <<3>> ELSE <<>>],
             weights |-> [c \in EdContainers |-> IF c = 1 THEN <<1>> ELSE <<>>],
             supplied |-> [c \in EdContainers |-> IF c = 1 THEN <<1>> ELSE <<>>],
             active |-> [c \in EdContainers |-> IF c = 1 THEN 3 ELSE NoElem],
             root |-> [x \in EdElems |-> IF x \in {1, 3} THEN TheRoot
                                         ELSE NoRoot],
             last |-> EdCall("none", NoElem, "ok", FALSE)]

\* c.add_element(e) where the added element always becomes the active one
AddElement_Activate(c, e, w) ==
    /\ Len(ed.content[c]) < MaxContent
    /\ ed' = [ed EXCEPT
                 !.weights[c] = IF c \in EdSplit THEN Append(@, w) ELSE @,
                 !.supplied[c] = IF c \in EdSplit THEN Append(@, w) ELSE @,
                 !.content[c] = Append(@, e),
                 !.active[c] = e,
                 !.root = SetRoot(@, ed.content, e, ed.root[c]),
                 !.last = EdCall("add", NoElem, "ok", ed.root[c] # NoRoot)]
    /\ UNCHANGED <<treeVars, sc, sk, sv, fn>>

\* c.add_element(e), with weight w when c is a split container
AddElement(c, e, w) ==
    /\ Len(ed.content[c]) < MaxContent
    /\ ed' = [ed EXCEPT
                 !.weights[c] = IF c \in EdSplit THEN Append(@, w) ELSE @,
                 !.supplied[c] = IF c \in EdSplit THEN Append(@, w) ELSE @,
                 !.content[c] = Append(@, e),
                 !.active[c] = IF @ = NoElem THEN e ELSE @,
                 !.root = SetRoot(@, ed.content, e, ed.root[c]),
                 !.last = EdCall("add", NoElem, "ok", ed.root[c] # NoRoot)]
    /\ UNCHANGED <<treeVars, sc, sk, sv, fn>>

\* c.remove_element(e) where the last weight is deleted rather than the one
\* at index(e)
RemoveElement_PopWeight(c, e) ==
    /\ IF IndexOf(ed.content[c], e) = 0
       THEN ed' = [ed EXCEPT !.last = EdCall("remove", NoElem, "raise", FALSE)]
       ELSE ed' = [ed EXCEPT
                      !.weights[c] =
                          IF c \in EdSplit THEN RemoveAt(@, Len(@)) ELSE @,
                      !.supplied[c] =
                          IF c \in EdSplit
                          THEN RemoveAt(@, IndexOf(ed.content[c], e)) ELSE @,
                      !.content[c] = RemoveAt(@, IndexOf(ed.content[c], e)),
                      !.active[c] = IF @ = e THEN NoElem ELSE @,
                      !.last = EdCall("remove", NoElem, "ok",
                                      ed.root[c] # NoRoot)]
    /\ UNCHANGED <<treeVars, sc, sk, sv, fn>>

\* c.remove_element(e): SplitContainer.remove_element deletes the weight at
\* index(e) and goes on to ABCContainerElement.remove_element; both raise
\* ValueError, before any change, when e is not in c
RemoveElement(c, e) ==
    /\ IF IndexOf(ed.content[c], e) = 0
       THEN ed' = [ed EXCEPT !.last = EdCall("remove", NoElem, "raise", FALSE)]
       ELSE ed' = [ed EXCEPT
                      !.weights[c] =
                          IF c \in EdSplit
                          THEN RemoveAt(@, IndexOf(ed.content[c], e)) ELSE @,
                      !.supplied[c] =
                          IF c \in EdSplit
                          THEN RemoveAt(@, IndexOf(ed.content[c], e)) ELSE @,
                      !.content[c] = RemoveAt(@, IndexOf(ed.content[c], e)),
                      !.active[c] = IF @ = e THEN NoElem ELSE @,
                      !.last = EdCall("remove", NoElem, "ok",
                                      ed.root[c] # NoRoot)]
    /\ UNCHANGED <<treeVars, sc, sk, sv, fn>>

\* c.replace_element(old, new)
ReplaceElement(c, old, new) ==
    /\ IF IndexOf(ed.content[c], old) = 0
       THEN ed' = [ed EXCEPT
                      !.last = EdCall("replace", NoElem, "raise", FALSE)]
       ELSE ed' = [ed EXCEPT
                      !.content[c][IndexOf(ed.content[c], old)] = new,
                      !.active[c] = IF @ = old THEN new ELSE @,
                      !.root = SetRoot(@, ed.content, new, ed.root[c]),
                      !.last = EdCall("replace", NoElem, "ok",
                                      ed.root[c] # NoRoot)]
    /\ UNCHANGED <<treeVars, sc, sk, sv, fn>>

\* t.content = value on a Text element: the Root it refers to, if any, is
\* asked to update
SetContent(t) ==
    /\ ed' = [ed EXCEPT
                 !.last = EdCall("content", t, "ok",
                                 ed.root[t] # NoRoot)]
    /\ UNCHANGED <<treeVars, sc, sk, sv, fn>>

NextEdit ==
    \/ \E c \in EdContainers : \E e \in EdChildren(c), w \in EdWeights :
          AddElement(c, e, w)
    \/ \E c \in EdContainers : \E e \in EdChildren(c) : RemoveElement(c, e)
    \/ \E c \in EdContainers : \E old, new \in EdChildren(c) :
          ReplaceElement(c, old, new)
    \/ \E t \in EdLeaves : SetContent(t)

SpecEdit == InitEdit /\ [][NextEdit]_vars

\* the weight list of every split container is as long as its child list
\* and holds, slot by slot, the weights that were supplied
EdAligned ==
    \A c \in EdSplit :
        /\ Len(ed.weights[c]) = Len(ed.content[c])
        /\ ed.weights[c] = ed.supplied[c]

\* C16: through add_element, remove_element and replace_element the weight
\* list of a split container stays as long as the child list and slot i
\* holds the weight supplied when the child in slot i (or the child it
\* replaced) was added; a remove_element that raises changes neither list.
C16_WeightsAligned ==
    /\ EdAligned
    /\ [][/\ EdAligned'
          /\ (ed'.last.op = "remove" /\ ed'.last.outcome = "raise")
                 => (ed'.content = ed.content /\ ed'.weights = ed.weights)]_vars

\* the first child is removed after a second one was added with weight 2
C16_Witness ==
    /\ ed.last.op = "remove"
    /\ ed.last.outcome = "ok"
    /\ ed.content[1] = <<4>>
    /\ ed.weights[1] = <<2>>

\* the elements of the tree that hangs from the Root
EdAttached == EdSubtree(ed.content, 1)

\* C17: removal severs the parent link: an element that remove_element or
\* replace_element took out of the tree of the Root no longer refers to
\* that Root, and setting the content of a Text element outside the tree
\* asks for no repaint.
C17_RemovalSeversRoot ==
    /\ \A e \in EdElems \ EdAttached : ed.root[e] # TheRoot
    /\ (ed.last.op = "content" /\ ed.last.repaint)
           => ed.last.elem \in EdAttached

\* the containers whose child list holds e
EdParents(e) == {c \in EdContainers : IndexOf(ed.content[c], e) # 0}

\* C18: each element is in the child list of at most one container.
C18_OneParent == \A e \in EdElems : Cardinality(EdParents(e)) <= 1

\* the step from child list s with active element a to child list t with
\* active element b treats the active element as the claim says
ActiveStep(s, a, t, b) ==
    /\ t = s => b = a
    /\ Len(t) = Len(s) + 1 => b = (IF a = NoElem THEN t[Len(t)] ELSE a)
    /\ Len(t) = Len(s) - 1
       => \E i \in 1..Len(s) :
             t = RemoveAt(s, i) /\ b = (IF a = s[i] THEN NoElem ELSE a)
    /\ (Len(t) = Len(s) /\ t # s)
       => \E i \in 1..Len(s) :
             t[i] # s[i] /\ b = (IF a = s[i] THEN t[i] ELSE a)

\* C26: a container's active_element is None or one of its children; the
\* first element added while there is none becomes active, later additions
\* leave it, removing the active element sets it to None and promotes no
\* other child, replacing the active element makes the replacement active.
C26_ActiveElement ==
    /\ [](\A c \in EdContainers :
             ed.active[c] = NoElem \/ IndexOf(ed.content[c], ed.active[c]) # 0)
    /\ [][\A c \in EdContainers :
             ActiveStep(ed.content[c], ed.active[c],
                        ed'.content[c], ed'.active[c])]_vars

\* the active child 3 has been removed: 4 is left and is not active
C26_Witness ==
    /\ ed.last.op = "remove"
    /\ ed.last.outcome = "ok"
    /\ ed.content[1] = <<4>>
    /\ ed.active[1] = NoElem

----------------------------------------------------------------------------
(* Zebra._get_elements_and_parameters on its own: one Zebra of Fill        *)
(* elements, laid out once in a region one column wide.                    *)

MaxZebraHeight == 4

\* a Zebra of the first n of the Fills 2, 3 and 4
ZebraTree(n, va, ev, od, mh) ==
    [FlatTree("Zebra", va, mh) EXCEPT
        !.content[1] = SubSeq(<<2, 3, 4>>, 1, n),
        !.attrs[1].even_format = ev,
        !.attrs[1].odd_format = od]

ZebraTrees ==
    {ZebraTree(n, va, ev, od, mh) :
        n \in 1..3, va \in {"top", "bottom"}, ev \in {<<>>, <<"even">>},
        od \in {<<>>, <<"odd">>}, mh \in {NoneV, 2}}

InitZebra ==
    /\ TreeInitFrom(ZebraTrees)
    /\ sc = Idle
    /\ sk = Idle
    /\ sv = Idle
    /\ ed = Idle
    /\ \E height \in 0..MaxZebraHeight, fmt \in Formats :
          fn = [pc |-> "start", height |-> height, fmt |-> fmt,
                items |-> <<>>]

\* the Zebra is asked for its elements and their parameters
ZebraDraw ==
    /\ fn.pc = "start"
    /\ fn' = [fn EXCEPT !.pc = "done",
                        !.items = ZebraParams(1, 1, fn.height, 0, 0,
                                              fn.fmt).items]
    /\ UNCHANGED <<treeVars, sc, sk, sv, ed>>

NextZebra == ZebraDraw

SpecZebra == InitZebra /\ [][NextZebra]_vars

\* C19: for valign top and bottom alike, the laid-out child at position i
\* of the child list (counting from 0) receives the Zebra's composed format
\* followed by even_format when i is even and odd_format when i is odd, and
\* the composed format alone when that zebra format is unset.
C19_ZebraFormats ==
    fn.pc = "done" =>
        \A j \in 1..Len(fn.items) :
            fn.items[j].fmt =
                ComposeFormat(fn.fmt,
                              ZebraFormat(1, IndexOf(content[1],
                                                     fn.items[j].elem) - 1))

----------------------------------------------------------------------------
(* The size attributes of a Box, read once.                                *)

MaxChildMax == 3

\* a Box around the Fill 2 whose max_width and max_height are mw and mh
BoxFillTree(mw, mh) ==
    [kind |-> [e \in Elems |-> IF e = 1 THEN "Box" ELSE "Fill"],
     content |-> [e \in Elems |-> IF e = 1 THEN <<2>> ELSE <<>>],
     attrs |-> [e \in Elems |->
                  IF e = 1 THEN DefaultAttrs
                  ELSE IF e = 2 THEN [FillAttrs(e) EXCEPT !.max_width = mw,
                                                         !.max_height = mh]
                  ELSE FillAttrs(e)],
     dformat |-> [e \in Elems |-> <<>>]]

BoxTrees ==
    {BoxTree} \cup
    {BoxFillTree(mw, mh) : mw, mh \in {NoneV} \cup (0..MaxChildMax)}

SizeAttributes ==
    {<<"min", "width">>, <<"min", "height">>,
     <<"max", "width">>, <<"max", "height">>}

InitBox ==
    /\ TreeInitFrom(BoxTrees)
    /\ sc = Idle
    /\ sk = Idle
    /\ sv = Idle
    /\ ed = Idle
    /\ fn = [pc |-> "start"]

\* box.min_width, box.min_height, box.max_width or box.max_height is read;
\* value is ErrV when the read raises
BoxRead ==
    /\ fn.pc = "start"
    /\ \E a \in SizeAttributes :
          fn' = [pc |-> "read", bound |-> a[1], dim |-> a[2],
                 value |-> IF a[1] = "min" THEN MinSize(1, a[2])
                           ELSE MaxSize(1, a[2])]
    /\ UNCHANGED <<treeVars, sc, sk, sv, ed>>

NextBox == BoxRead

SpecBox == InitBox /\ [][NextBox]_vars

\* C20: min_width and min_height of a Box are 2; max_width (max_height) is
\* the active child's max_width (max_height) plus 2, and is undefined (None)
\* when the child's is undefined.
C20_BoxSizes ==
    fn.pc = "read" =>
        IF fn.bound = "min" THEN fn.value = 2
        ELSE IF MaxSize(active[1], fn.dim) = NoneV THEN fn.value = NoneV
        ELSE fn.value = MaxSize(active[1], fn.dim) + 2

----------------------------------------------------------------------------
(* The halign and valign of one element (base.py), assigned any number of  *)
(* times.  The element has no Root; drawing it clears its updated flag.    *)

AlignClasses == {"Fill", "Text", "Box", "Stack", "Zebra"}

\* _all_haligns / _all_valigns
AllAligns(orientation) ==
    IF orientation = "horizontal" THEN {"left", "center", "right"}
    ELSE {"top", "middle", "bottom"}

\* _possible_haligns / _possible_valigns of the class
PossibleAligns(cls, orientation) ==
    IF orientation = "vertical" /\ cls \in StackKinds THEN {"top", "bottom"}
    ELSE AllAligns(orientation)

\* the values an application may try to assign
AlignValues == AllAligns("horizontal") \cup AllAligns("vertical") \cup {"wrong"}

\* _set_align where the value is only tested against the full set
set_align_AllOnly(cls, orientation, value) ==
    IF value \notin AllAligns(orientation)
    THEN [outcome |-> "raise", msg |-> "non-existant"]
    ELSE [outcome |-> "ok", msg |-> ""]

\* ABCUIElement._set_align: whether it raises, and the word its message
\* uses
set_align(cls, orientation, value) ==
    IF value \notin PossibleAligns(cls, orientation)
    THEN [outcome |-> "raise",
          msg |-> IF value \in AllAligns(orientation) THEN "non-permitted"
                  ELSE "non-existant"]
    ELSE [outcome |-> "ok", msg |-> ""]

AlignCall(orientation, value, r) ==
    [orientation |-> orientation, value |-> value, outcome |-> r.outcome,
     msg |-> r.msg]

InitAlign ==
    /\ TreeInitFrom({BoxTree})
    /\ sc = Idle
    /\ sk = Idle
    /\ sv = Idle
    /\ fn = Idle
    /\ \E cls \in AlignClasses :
          ed = [cls |-> cls, halign |-> "left", valign |-> "top",
                updated |-> TRUE,
                last |-> AlignCall("none", "", [outcome |-> "ok", msg |-> ""])]

\* the setter has run _set_align with result r: the alignment is stored and
\* updated set only if it did not raise
AlignAssigned(orientation, value, r) ==
    /\ ed' = [ed EXCEPT
                 !.halign = IF r.outcome = "ok" /\ orientation = "horizontal"
                            THEN value ELSE @,
                 !.valign = IF r.outcome = "ok" /\ orientation = "vertical"
                            THEN value ELSE @,
                 !.updated = IF r.outcome = "ok" THEN TRUE ELSE @,
                 !.last = AlignCall(orientation, value, r)]
    /\ UNCHANGED <<treeVars, sc, sk, sv, fn>>

\* element.halign = value
SetHalign(value) ==
    AlignAssigned("horizontal", value, set_align(ed.cls, "horizontal", value))

\* element.valign = value
SetValign(value) ==
    AlignAssigned("vertical", value, set_align(ed.cls, "vertical", value))

\* get_all_blocks on the element: its updated flag is cleared
AlignDrawn ==
    /\ ed.updated
    /\ ed' = [ed EXCEPT
                 !.updated = FALSE,
                 !.last = AlignCall("draw", "", [outcome |-> "ok", msg |-> ""])]
    /\ UNCHANGED <<treeVars, sc, sk, sv, fn>>

NextAlign ==
    \/ \E value \in AlignValues : SetHalign(value)
    \/ \E value \in AlignValues : SetValign(value)
    \/ AlignDrawn

SpecAlign == InitAlign /\ [][NextAlign]_vars

\* the stored alignments are permitted for the class, and the last
\* rejection named the right kind of error
AlignOk ==
    /\ ed.halign \in PossibleAligns(ed.cls, "horizontal")
    /\ ed.valign \in PossibleAligns(ed.cls, "vertical")
    /\ ed.last.outcome = "raise"
       => /\ ed.last.value \notin PossibleAligns(ed.cls, ed.last.orientation)
          /\ ed.last.msg = IF ed.last.value \in AllAligns(ed.last.orientation)
                           THEN "non-permitted" ELSE "non-existant"
    /\ (ed.last.orientation \notin {"none", "draw"} /\ ed.last.outcome = "ok")
       => ed.last.value \in PossibleAligns(ed.cls, ed.last.orientation)

----------------------------------------------------------------------------
(* LineBuffer (input_elements.py): the buffer of a line being edited, fed  *)
(* one input token at a time.  A line_received_callback is installed.      *)

MaxLine == 3

LineChars == {"a", "b"}

\* the names of keys handle_input knows, and one it does not
LineKeys ==
    {"space", "backspace", "delete", "left", "right", "home", "end", "return"}
OtherKeys == {"up"}

\* the tokens that put a character into the buffer
Inserting == LineChars \cup {"space"}

\* b is the buffer: content, cursor_position, and in calls the texts the
\* callback was called with during the last handle_input
insert_char(b, char) ==
    [b EXCEPT
        !.content = IF b.cursor_position = Len(b.content) THEN @ \o <<char>>
                    ELSE PySlice(@, NoneV, b.cursor_position) \o <<char>>
                             \o PySlice(@, b.cursor_position, NoneV),
        !.cursor_position = @ + 1]

delete_char(b, pos) ==
    [b EXCEPT !.content = PySlice(@, NoneV, pos) \o PySlice(@, pos + 1, NoneV)]

backspace_char(b) ==
    IF b.cursor_position = 0 THEN b
    ELSE IF b.cursor_position = Len(b.content)
    THEN [b EXCEPT !.content = PySlice(@, NoneV, -1),
                   !.cursor_position = @ - 1]
    ELSE [delete_char(b, b.cursor_position - 1) EXCEPT
             !.cursor_position = @ - 1]

\* _move_cursor without the clamp
move_cursor_NoClamp(b, delta) ==
    [b EXCEPT !.cursor_position = @ + delta]

move_cursor(b, delta) ==
    [b EXCEPT !.cursor_position = clamp(@ + delta, 0, Len(b.content))]

\* _line_received, then clear
line_received(b) ==
    [b EXCEPT !.calls = <<b.content>>, !.content = <<>>,
              !.cursor_position = 0]

handle_input(b, data) ==
    IF data \in LineChars THEN insert_char(b, data)
    ELSE IF data = "space" THEN insert_char(b, " ")
    ELSE IF data = "backspace" THEN backspace_char(b)
    ELSE IF data = "delete" THEN delete_char(b, b.cursor_position)
    ELSE IF data = "left" THEN move_cursor(b, -1)
    ELSE IF data = "right" THEN move_cursor(b, 1)
    ELSE IF data = "home" THEN [b EXCEPT !.cursor_position = 0]
    ELSE IF data = "end" THEN [b EXCEPT !.cursor_position = Len(b.content)]
    ELSE IF data = "return" THEN line_received(b)
    ELSE b

InitLine ==
    /\ TreeInitFrom({BoxTree})
    /\ sc = Idle
    /\ sk = Idle
    /\ sv = Idle
    /\ fn = Idle
    /\ ed = [content |-> <<>>, cursor_position |-> 0, calls |-> <<>>,
             data |-> ""]

\* line_buffer.handle_input(data)
HandleInput(data) ==
    /\ data \in Inserting => Len(ed.content) < MaxLine
    /\ ed' = handle_input([ed EXCEPT !.calls = <<>>, !.data = data], data)
    /\ UNCHANGED <<treeVars, sc, sk, sv, fn>>

NextLine == \E data \in LineChars \cup LineKeys \cup OtherKeys : HandleInput(data)

SpecLine == InitLine /\ [][NextLine]_vars

\* the call that has just returned left content and cursor as they were
LineUnchanged ==
    /\ ed'.content = ed.content
    /\ ed'.cursor_position = ed.cursor_position

\* C22: after any sequence of input tokens 0 <= cursor_position <=
\* len(content); backspace at position 0, delete at the end of the text and
\* a key name handle_input does not know change nothing; return passes the
\* text to the line-received callback and leaves the buffer empty with the
\* cursor at 0.
C22_LineBuffer ==
    /\ [](0 <= ed.cursor_position /\ ed.cursor_position <= Len(ed.content))
    /\ [][/\ (ed'.data = "backspace" /\ ed.cursor_position = 0)
                => LineUnchanged
          /\ (ed'.data = "delete" /\ ed.cursor_position = Len(ed.content))
                => LineUnchanged
          /\ ed'.data \in OtherKeys => LineUnchanged
          /\ ed'.data = "return"
                => /\ ed'.calls = <<ed.content>>
                   /\ ed'.content = <<>>
                   /\ ed'.cursor_position = 0
          /\ ed'.data # "return" => ed'.calls = <<>>]_vars

\* 'ab' has been typed and passed to the callback by return
C22_Witness ==
    /\ ed.data = "return"
    /\ ed.calls = << <<"a", "b">> >>
    /\ ed.content = <<>>
    /\ ed.cursor_position = 0

----------------------------------------------------------------------------
(* ProgressBar (display_elements.py).  A fraction is the rational          *)
(* num / den with den > 0; the arithmetic of _get_lines is done exactly.   *)

MaxDen == 5
MaxBarWidth == 10

\* the denominators of the assigned values; 20 gives 45/100 = 9/20
Dens == (1..MaxDen) \cup {20}

\* the chars argument: the default glyphs, a ramp of one and a ramp of three
BarChars ==
    {<<"[", " ", "-", "=", "]">>, <<":", "*", "#", ":">>,
     <<"<", ".", "1", "2", "3", ">">>}

\* chars[2:-1]
ProgressChars(chars) == PySlice(chars, 2, -1)

\* _get_lines where the boundary character is never placed
ProgressBar_get_lines_NoBoundary(chars, num, den, width_) ==
    <<chars[1]>>
    \o [i \in 1..(Max2(width_, 3) - 2) |->
           IF i <= (num * (Max2(width_, 3) - 2)) \div den
           THEN ProgressChars(chars)[Len(ProgressChars(chars))]
           ELSE chars[2]]
    \o <<chars[Len(chars)]>>

\* the interior cells: chars[:filled] = solid * filled, then chars[filled] =
\* final_char if over is not zero
BarCells(width_, filled, over_num, den, bg_char, progress_chars) ==
    [i \in 1..width_ |->
        IF i <= filled THEN progress_chars[Len(progress_chars)]
        ELSE IF i = filled + 1 /\ over_num # 0
        THEN progress_chars[((over_num * Len(progress_chars)) \div den) + 1]
        ELSE bg_char]

\* ProgressBar._get_lines(width, height)[0] for the fraction num / den
ProgressBar_get_lines(chars, num, den, width_) ==
    <<chars[1]>>
    \o BarCells(Max2(width_, 3) - 2,
                (num * (Max2(width_, 3) - 2)) \div den,
                (num * (Max2(width_, 3) - 2)) % den,
                den, chars[2], ProgressChars(chars))
    \o <<chars[Len(chars)]>>

InitBar ==
    /\ TreeInitFrom({BoxTree})
    /\ sc = Idle
    /\ sk = Idle
    /\ sv = Idle
    /\ ed = Idle
    /\ \E chars \in BarChars :
          fn = [pc |-> "new", chars |-> chars, num |-> 0, den |-> 1,
                width |-> 0, line |-> <<>>]

\* progress_bar.fraction = value / den: the value is clamped to [0, 1]
SetFraction ==
    /\ fn.pc = "new"
    /\ \E den \in Dens : \E value \in (-1)..(den + 1) :
          fn' = [fn EXCEPT !.pc = "set", !.den = den,
                           !.num = clamp(value, 0, den)]
    /\ UNCHANGED <<treeVars, sc, sk, sv, ed>>

\* progress_bar._get_lines(width, 1)
GetLines ==
    /\ fn.pc \in {"new", "set"}
    /\ \E width_ \in 0..MaxBarWidth :
          fn' = [fn EXCEPT !.pc = "done", !.width = width_,
                           !.line = ProgressBar_get_lines(fn.chars, fn.num,
                                                          fn.den, width_)]
    /\ UNCHANGED <<treeVars, sc, sk, sv, ed>>

NextBar == SetFraction \/ GetLines

SpecBar == InitBar /\ [][NextBar]_vars

\* k copies of c
Copies(c, k) == [i \in 1..k |-> c]

\* the line of the claim for w interior cells, f * w = solid + rem / den
BarLine(chars, ramp, w, solid, rem, den) ==
    <<chars[1]>>
    \o Copies(ramp[Len(ramp)], solid)
    \o (IF rem # 0 THEN <<ramp[((rem * Len(ramp)) \div den) + 1]>> ELSE <<>>)
    \o Copies(chars[2], w - solid - (IF rem # 0 THEN 1 ELSE 0))
    \o <<chars[Len(chars)]>>

----------------------------------------------------------------------------
(* weighted_round_robin (util.py) on its own: the iterator it returns is   *)
(* asked for its next item again and again.  Item i is the i-th tuple of   *)
(* the iterable, ws[i] its weight.                                         *)

MaxItems == 3
MaxItemWeight == 3

ItemWeights == UNION {[1..n -> 1..MaxItemWeight] : n \in 1..MaxItems}

InitRobin ==
    /\ TreeInitFrom({BoxTree})
    /\ sc = Idle
    /\ sk = Idle
    /\ sv = Idle
    /\ ed = Idle
    /\ \E ws \in ItemWeights :
          fn = [pc |-> "start", ws |-> ws, cyclable_list |-> <<>>,
                yielded |-> <<>>]

\* it = weighted_round_robin(iterable)
RobinCall ==
    /\ fn.pc = "start"
    /\ fn' = [fn EXCEPT !.pc = "cycle",
                        !.cyclable_list = weighted_round_robin(fn.ws)]
    /\ UNCHANGED <<treeVars, sc, sk, sv, ed>>

\* next(it): itertools.cycle goes round the list; two rounds are followed
RobinNext ==
    /\ fn.pc = "cycle"
    /\ fn.cyclable_list # <<>>
    /\ Len(fn.yielded) < 2 * Len(fn.cyclable_list)
    /\ fn' = [fn EXCEPT
                 !.yielded = Append(@, fn.cyclable_list[
                                 (Len(@) % Len(fn.cyclable_list)) + 1])]
    /\ UNCHANGED <<treeVars, sc, sk, sv, ed>>

NextRobin == RobinCall \/ RobinNext

SpecRobin == InitRobin /\ [][NextRobin]_vars

\* the items whose weight exceeds k
Above(ws, k) == {i \in 1..Len(ws) : ws[i] > k}

RECURSIVE SweepStart(_, _)
\* the number of items listed before sweep k
SweepStart(ws, k) ==
    IF k = 0 THEN 0
    ELSE SweepStart(ws, k - 1) + Cardinality(Above(ws, k - 1))

\* s lists exactly the items whose weight exceeds k, heavier ones first
IsSweep(ws, s, k) ==
    /\ Len(s) = Cardinality(Above(ws, k))
    /\ Range(s) = Above(ws, k)
    /\ \A a, b \in 1..Len(s) : a < b => ws[s[a]] >= ws[s[b]]

\* C24: the iterator repeats for ever a period of length sum(weights) in
\* which item i appears ws[i] times; the period is made of the sweeps
\* k = 0, 1, 2, ..., sweep k listing in descending weight order exactly the
\* items whose weight exceeds k.
C24_RoundRobin ==
    fn.pc = "cycle" =>
        LET P == SeqSum(fn.ws)
        IN  /\ \A j \in 1..Len(fn.yielded) :
                  j > P => fn.yielded[j] = fn.yielded[j - P]
            /\ Len(fn.yielded) >= P
               => /\ \A i \in 1..Len(fn.ws) :
                        Cardinality({j \in 1..P : fn.yielded[j] = i}) = fn.ws[i]
                  /\ \A k \in 0..(MaxItemWeight - 1) :
                        IsSweep(fn.ws,
                                SubSeq(fn.yielded, SweepStart(fn.ws, k) + 1,
                                       SweepStart(fn.ws, k + 1)),
                                k)
            /\ Len(fn.yielded) < 2 * P => ENABLED RobinNext

\* (a, 3), (b, 1), (c, 2): the period a, c, b, a, c, a has been yielded twice
C24_Witness ==
    /\ fn.pc = "cycle"
    /\ fn.ws = <<3, 1, 2>>
    /\ fn.yielded = <<1, 3, 2, 1, 3, 1, 1, 3, 2, 1, 3, 1>>

----------------------------------------------------------------------------
(* A Root and the repaint requests of its elements (root.py, base.py,      *)
(* container_elements.py, display_elements.py).  The application has built *)
(* Root(Stack(Text, ProgressBar)): element 1 is the Stack, 2 the Text and  *)
(* 3 the ProgressBar.  ed.drawn says whether the Root has a stored         *)
(* geometry, ed.geometry[e] whether element e has one.                     *)

RootElems == {1, 2, 3}
RootLeaves == {2, 3}
RootTexts == {"a", "b"}
RootFractions == {0, 1}
RootValigns == {"top", "bottom"}

NotDrawn == "draw() must be called before it can be updated"
NotInList == "list.remove(x): x not in list"

RootCall(op, outcome, msg, first) ==
    [op |-> op, outcome |-> outcome, msg |-> msg, first |-> first]

InitRoot ==
    /\ TreeInitFrom({BoxTree})
    /\ sc = Idle
    /\ sk = Idle
    /\ sv = Idle
    /\ fn = Idle
    /\ ed = [drawn |-> FALSE,
             geometry |-> [e \in RootElems |-> FALSE],
             updated |-> [e \in RootElems |-> TRUE],
             content |-> <<2, 3>>,
             root |-> [e \in RootElems |-> TRUE],
             text |-> "a", fraction |-> 0, valign |-> "top",
             last |-> RootCall("none", "ok", "", FALSE)]

\* the result of a call that worked on the record st
RootResult(st, outcome, msg) == [st |-> st, outcome |-> outcome, msg |-> msg]

RECURSIVE UpdateContent(_, _)
\* the loop of ABCContainerElement._get_updated_blocks from child i on:
\* get_updated_blocks of a child raises when it has no stored geometry and
\* else clears its flag
UpdateContent(st, i) ==
    IF i > Len(st.content) THEN RootResult(st, "ok", "")
    ELSE IF ~st.geometry[st.content[i]] THEN RootResult(st, "raise", NotDrawn)
    ELSE UpdateContent([st EXCEPT !.updated[st.content[i]] = FALSE], i + 1)

\* the Stack's updated property
StackUpdated(st) ==
    st.updated[1] \/ \E i \in 1..Len(st.content) : st.updated[st.content[i]]

\* get_updated_blocks of the Root's element
ElementUpdate(st, r) ==
    IF ~st.geometry[1] THEN RootResult(st, "raise", NotDrawn)
    ELSE IF ~StackUpdated(st) THEN RootResult(st, "ok", "")
    ELSE IF r.outcome # "ok" THEN r
    ELSE RootResult([r.st EXCEPT !.updated[1] = FALSE], "ok", "")

\* Root.update(): ABCUIElement.get_updated_blocks on the Root, whose updated
\* property is always True, then on its element
Root_update(st) ==
    IF ~st.drawn THEN RootResult(st, "raise", NotDrawn)
    ELSE ElementUpdate(st, UpdateContent(st, 1))

\* Root.draw(): get_all_blocks stores a geometry for the Root, its element
\* and every child the Stack holds, and clears their flags
Root_draw(st) ==
    RootResult(
        [st EXCEPT
            !.drawn = TRUE,
            !.geometry = [e \in RootElems |->
                             IF e = 1 \/ e \in Range(st.content)
                             THEN TRUE ELSE @[e]],
            !.updated = [e \in RootElems |->
                            IF e = 1 \/ e \in Range(st.content)
                            THEN FALSE ELSE @[e]]],
        "ok", "")

\* the end of a mutation of element e: st holds the assignments made, and
\* the Root e refers to, if any, is asked to update
Repaint(op, e, st) ==
    /\ ed' = IF st.root[e]
             THEN [Root_update(st).st EXCEPT
                      !.last = RootCall(op, Root_update(st).outcome,
                                        Root_update(st).msg, ~ed.drawn)]
             ELSE [st EXCEPT !.last = RootCall(op, "ok", "", ~ed.drawn)]
    /\ UNCHANGED <<treeVars, sc, sk, sv, fn>>

\* text.content = value
RootSetContent(value) ==
    Repaint("content", 2, [ed EXCEPT !.text = value, !.updated[2] = TRUE])

\* progress_bar.fraction = value
RootSetFraction(value) ==
    Repaint("fraction", 3,
            [ed EXCEPT !.fraction = clamp(value, 0, 1), !.updated[3] = TRUE])

\* stack.valign = value, a permitted value: the container's updated setter
\* asks the Root to update
RootSetValign(value) ==
    Repaint("valign", 1, [ed EXCEPT !.valign = value, !.updated[1] = TRUE])

\* stack.remove_element(e)
RootRemoveElement(e) ==
    IF IndexOf(ed.content, e) = 0
    THEN /\ ed' = [ed EXCEPT
                      !.last = RootCall("remove", "raise", NotInList,
                                        ~ed.drawn)]
         /\ UNCHANGED <<treeVars, sc, sk, sv, fn>>
    ELSE Repaint("remove", 1,
                 [ed EXCEPT !.content = RemoveAt(@, IndexOf(ed.content, e)),
                            !.updated[1] = TRUE])

\* stack.add_element(e): the Root the Stack refers to is drawn
RootAddElement(e) ==
    /\ IndexOf(ed.content, e) = 0
    /\ ed' = [Root_draw([ed EXCEPT !.content = Append(@, e),
                                   !.root[e] = ed.root[1]]).st
                 EXCEPT !.last = RootCall("add", "ok", "", ~ed.drawn)]
    /\ UNCHANGED <<treeVars, sc, sk, sv, fn>>

\* root.draw()
RootDraw ==
    /\ ed' = [Root_draw(ed).st EXCEPT
                 !.last = RootCall("draw", "ok", "", ~ed.drawn)]
    /\ UNCHANGED <<treeVars, sc, sk, sv, fn>>

NextRoot ==
    \/ \E v \in RootTexts : RootSetContent(v)
    \/ \E v \in RootFractions : RootSetFraction(v)
    \/ \E v \in RootValigns : RootSetValign(v)
    \/ \E e \in RootLeaves : RootRemoveElement(e)
    \/ \E e \in RootLeaves : RootAddElement(e)
    \/ RootDraw

SpecRoot == InitRoot /\ [][NextRoot]_vars

\* C30: a mutation of an element attached to a Root, made before that
\* Root's first draw, does not fail with the update-before-draw error.
C30_MutationBeforeDraw ==
    (ed.last.first /\ ed.last.op \in {"content", "fraction", "valign", "remove"})
    => ~(ed.last.outcome = "raise" /\ ed.last.msg = NotDrawn)


====
